---- MODULE Spec2Model ----
(***************************************************************************)
(* Channel context of tll: the registry of implementations and aliases,    *)
(* protocol resolution, channel instantiation and the name index           *)
(* (src/src/channel/context.cc), the prefix channel (src/src/tll/channel/  *)
(* prefix.h) and the dynamic capability bits (src/src/tll/channel.h).      *)
(*                                                                         *)
(* Protocol names are sequences of one-character strings, so that find,    *)
(* substr and back work on them as they do on std::string_view.            *)
(***************************************************************************)
EXTENDS Integers, Sequences, FiniteSets, TLC

VARIABLES
    registry,   \* tll_channel_context_t::registry : name -> impl or alias Url
    res,        \* the last context call and what it returned
    chans,      \* the channel objects the context has created, in creation order
    channels,   \* tll_channel_context_t::channels : name -> channel
    config,     \* tll_channel_context_t::config : name -> channel whose config is mirrored
    stat_list,  \* tll_channel_context_t::stat_list : channels whose stat block is listed
    refs,       \* reference count of the context
    tree,       \* SpecChan: parent of every channel of the stack (0 for the root)
    state,      \* SpecChan: internal->state of every channel
    dcaps,      \* SpecChan: internal->dcaps of every channel
    pinned,     \* SpecChan: channels suspended by their own tll_channel_suspend
    last,       \* SpecChan: the last channel call and what it did
    data_cb,    \* internal->data_cb[0 .. data_cb_size) : the slots of the DATA callbacks
    cb,         \* internal->cb[0 .. cb_size) : the slots of the other callbacks
    data_order, \* the pairs that have a slot in data_cb, in the order they got it
    fd,         \* internal->fd of every channel
    list,       \* Loop::list
    list_p,     \* Loop::list_p, up to its size
    list_pending, \* Loop::list_pending, up to its size
    epoll,      \* the interest list of Loop::fd : channel -> events
    efd,        \* the events Loop::efd is registered with
    subs,       \* the channels whose callback table holds the loop, with the mask
    sent,       \* the messages the last call emitted to the subscribers, in order
    pc,         \* threads: where each thread is in the function it runs
    loc,        \* threads: the local variables of each thread
    shared,     \* threads: the objects the threads share, one field per object
    hist        \* threads: what the calls have returned and delivered so far

vars == <<registry, res, chans, channels, config, stat_list, refs, tree, state, dcaps, pinned, last,
          data_cb, cb, data_order, fd, list, list_p, list_pending, epoll, efd, subs, sent,
          pc, loc, shared, hist>>

regVars == <<registry, res>>

ctxVars == <<chans, channels, config, stat_list, refs>>

chanVars == <<tree, state, dcaps, pinned, last>>

cbVars == <<data_cb, cb, data_order>>

loopVars == <<fd, list, list_p, list_pending, epoll, efd, subs, sent>>

thrVars == <<pc, loc, shared, hist>>

extVars == <<cbVars, loopVars, thrVars>>

----------------------------------------------------------------------------
(* Strings *)

Plus == "+"

S_direct == <<"d","i","r","e","c","t">>

S_ipc == <<"i","p","c">>

S_mem == <<"m","e","m">>

S_loader == <<"l","o","a","d","e","r">>

S_null == <<"n","u","l","l">>

S_serial == <<"s","e","r","i","a","l">>

S_tcp == <<"t","c","p">>

S_timeit == <<"t","i","m","e","i","t">>

S_timer == <<"t","i","m","e","r">>

S_udp == <<"u","d","p">>

S_yaml == <<"y","a","m","l">>

S_zero == <<"z","e","r","o">>

S_mudp == <<"m","u","d","p">>

S_echo == <<"e","c","h","o">>

S_prefixP == <<"p","r","e","f","i","x","+">>

S_alias == <<"a","l","i","a","s">>

S_aliasP == <<"a","l","i","a","s","+">>

S_other == <<"o","t","h","e","r">>

Empty == <<>>

\* std::string_view::find(c): the 1-based index of the first c, 0 for npos
Find(s, c) ==
    IF \E i \in 1..Len(s) : s[i] = c
    THEN CHOOSE i \in 1..Len(s) : s[i] = c /\ \A j \in 1..(i-1) : s[j] # c
    ELSE 0

\* s.substr(0, n)
Head_(s, n) == SubSeq(s, 1, n)

\* s.substr(n) for a 0-based n
Tail_(s, n) == SubSeq(s, n + 1, Len(s))

\* s.back()
Back(s) == s[Len(s)]

----------------------------------------------------------------------------
(* Url: tll.proto, tll.host and the other keys of the config *)

Url(proto, host, keys) == [proto |-> proto, host |-> host, keys |-> keys]

NoKeys == << >>

NullUrl == Url(Empty, "", NoKeys)

K(k, v) == (k :> v)

\* alias.browse("**"): every leaf key of the url
Browse(u) == {"tll.proto", "tll.host"} \cup DOMAIN u.keys

Has(u, k) == k \in Browse(u)

\* url.get(k) as a string, "" when the key is absent
Get(u, k) ==
    IF k = "tll.host" THEN u.host
    ELSE IF k \in DOMAIN u.keys THEN u.keys[k] ELSE ""

----------------------------------------------------------------------------
(* Registry entries: std::variant<const tll_channel_impl_t *, Url> *)

NoImpl == "none"

Impl(i) == [kind |-> "impl", impl |-> i, url |-> NullUrl]

Alias(u) == [kind |-> "alias", impl |-> NoImpl, url |-> u]

NotFound == [kind |-> "none", impl |-> NoImpl, url |-> NullUrl]

\* impl->name of the implementations the model registers
ImplName(i) ==
    CASE i = "ChDirect" -> S_direct
      [] i = "ChIpc" -> S_ipc
      [] i = "ChMem" -> S_mem
      [] i = "ChLoader" -> S_loader
      [] i = "ChNull" -> S_null
      [] i = "ChSerial" -> S_serial
      [] i = "ChTcp" -> S_tcp
      [] i = "ChTimeIt" -> S_timeit
      [] i = "ChTimer" -> S_timer
      [] i = "ChUdp" -> S_udp
      [] i = "ChYaml" -> S_yaml
      [] i = "ChZero" -> S_zero
      [] i = "Echo" -> S_echo
      [] i = "Null" -> S_null
      [] i = "Prefix" -> S_prefixP

BuiltinImpls ==
    {"ChDirect", "ChIpc", "ChMem", "ChLoader", "ChNull", "ChSerial", "ChTcp",
     "ChTimeIt", "ChTimer", "ChUdp", "ChYaml", "ChZero"}

\* longest protocol the resolution loop of the model may build
MaxProtoLen == 24

\* lookup(std::string_view proto): the exact key, else the key up to the first '+'
lookup_noplus(reg, proto) ==
    IF proto \in DOMAIN reg THEN reg[proto]
    ELSE LET sep == Find(proto, Plus) IN
         IF sep = 0 THEN NotFound
         ELSE LET prefix == Head_(proto, sep - 1) IN
              IF prefix \in DOMAIN reg THEN reg[prefix] ELSE NotFound

\* lookup without the second find: protocols resolve by exact key only
lookup_exact(reg, proto) == IF proto \in DOMAIN reg THEN reg[proto] ELSE NotFound

lookup(reg, proto) ==
    IF proto \in DOMAIN reg THEN reg[proto]
    ELSE LET sep == Find(proto, Plus) IN
         IF sep = 0 THEN NotFound
         ELSE LET prefix == Head_(proto, sep) IN
              IF prefix \in DOMAIN reg THEN reg[prefix] ELSE NotFound

\* the protocol the loop of lookup(Url &) continues with after alias aproto
rewrite_always_append(proto, aproto) ==
    LET sep == Find(proto, Plus) IN
    IF sep # 0 THEN aproto \o Tail_(proto, sep) ELSE aproto

rewrite(proto, aproto) ==
    LET sep == Find(proto, Plus) IN
    IF sep # 0 /\ Back(aproto) = Plus
    THEN aproto \o Tail_(proto, sep)
    ELSE aproto

\* the keys of the alias that the loop copies into the url
merged(alias) == {k \in Browse(alias) : ~(k = "tll.proto" \/ k = "tll.host")}

\* the keys of the alias the url already has: "Duplicate field"
duplicates_none(url, alias) == {}

duplicates(url, alias) == {k \in merged(alias) : Has(url, k)}

Range(s) == {s[i] : i \in 1..Len(s)}

Resolved(st, impl, url, path) == [st |-> st, impl |-> impl, url |-> url, path |-> path]

\* lookup(Url & url): the do/while loop. path holds the urls the loop has had
\* before the current one. st is "impl" (found), "notfound", "dup" (duplicate
\* field), "loop" (the loop is back at a url it has already had: it never
\* ends) or "long" (the protocol outgrew MaxProtoLen).
RECURSIVE lookup_url(_, _, _)
lookup_url(reg, url, path) ==
    LET proto == url.proto
        e == lookup(reg, proto)
    IN  IF e.kind = "none" THEN Resolved("notfound", NoImpl, url, path)
        ELSE IF e.kind = "impl" THEN Resolved("impl", e.impl, url, path)
        ELSE LET alias == e.url
                 next == rewrite(proto, alias.proto)
                 add == merged(alias)
                 nurl == Url(next, url.host,
                             [k \in DOMAIN url.keys \cup add |->
                                 IF k \in add THEN alias.keys[k] ELSE url.keys[k]])
                 npath == Append(path, url)
             IN  IF duplicates(url, alias) # {} THEN Resolved("dup", NoImpl, url, path)
                 ELSE IF nurl \in Range(npath) THEN Resolved("loop", NoImpl, nurl, npath)
                 ELSE IF Len(next) > MaxProtoLen THEN Resolved("long", NoImpl, nurl, npath)
                 ELSE lookup_url(reg, nurl, npath)

Resolve(reg, url) == lookup_url(reg, url, <<>>)

\* the call returned (a loop that never ends returns nothing)
Returns(r) == r.st \notin {"loop", "long"}

----------------------------------------------------------------------------
(* Registry operations *)

\* tll_channel_context_t(Config): the built-in implementations and mudp
CtorRegistry ==
    [n \in {ImplName(i) : i \in BuiltinImpls} |->
        Impl(CHOOSE i \in BuiltinImpls : ImplName(i) = n)]
    @@ (S_mudp :> Alias(Url(S_udp, "", K("udp.multicast", "yes"))))

NoPath == <<>>

NoBeh == << >>

\* arg is the impl the caller passed, tried the impls whose init ran, in order
ResN(op, name, in, rc, impl, url, path, id, beh, arg, tried) ==
    [op |-> op, name |-> name, in |-> in, rc |-> rc, impl |-> impl, url |-> url,
     path |-> path, id |-> id, beh |-> beh, arg |-> arg, tried |-> tried]

ResC(op, name, in, rc, impl, url, path, id, beh) ==
    ResN(op, name, in, rc, impl, url, path, id, beh, NoImpl, <<>>)

Res(op, name, in, rc, impl, url, path) == ResC(op, name, in, rc, impl, url, path, 0, NoBeh)

\* a call that never returns leaves the (single) thread inside it
Running == res.rc \notin {"hang", "crash"}

\* the key reg and unreg work on
KeyOf(impl, name) == IF name = Empty THEN ImplName(impl) ELSE name

\* reg with operator[] in place of emplace: the entry is written whatever the key holds
Reg_overwrite(impl, name) ==
    LET key == IF name = Empty THEN ImplName(impl) ELSE name IN
    /\ Running
    /\ registry' = [k \in DOMAIN registry \cup {key} |->
                        IF k = key THEN Impl(impl) ELSE registry[k]]
    /\ res' = Res("reg", key, NullUrl, "0", impl, NullUrl, NoPath)

\* reg(impl, name)
Reg(impl, name) ==
    LET key == IF name = Empty THEN ImplName(impl) ELSE name IN
    /\ Running
    /\ IF key \in DOMAIN registry
       THEN /\ registry' = registry
            /\ res' = Res("reg", key, NullUrl, "EEXIST", impl, NullUrl, NoPath)
       ELSE /\ registry' = registry @@ (key :> Impl(impl))
            /\ res' = Res("reg", key, NullUrl, "0", impl, NullUrl, NoPath)

Without(reg, key) == [k \in DOMAIN reg \ {key} |-> reg[k]]

\* unreg without the two checks of what the key holds
Unreg_any(impl, name) ==
    LET key == IF name = Empty THEN ImplName(impl) ELSE name
        rc == IF key \notin DOMAIN registry THEN "ENOENT" ELSE "0"
    IN  /\ Running
        /\ registry' = IF rc = "0" THEN Without(registry, key) ELSE registry
        /\ res' = Res("unreg", key, NullUrl, rc, impl, NullUrl, NoPath)

\* unreg(impl, name)
Unreg(impl, name) ==
    LET key == IF name = Empty THEN ImplName(impl) ELSE name
        rc == IF key \notin DOMAIN registry THEN "ENOENT"
              ELSE IF registry[key].kind # "impl" THEN "EINVAL"
              ELSE IF registry[key].impl # impl THEN "EINVAL"
              ELSE "0"
    IN  /\ Running
        /\ registry' = IF rc = "0" THEN Without(registry, key) ELSE registry
        /\ res' = Res("unreg", key, NullUrl, rc, impl, NullUrl, NoPath)

\* alias_reg(name, cfg): lookup(cfg) rewrites cfg, and the rewritten cfg is stored
AliasReg(name, cfg) ==
    LET r == Resolve(registry, cfg)
        rc == IF name = Empty THEN "EINVAL"
              ELSE IF Get(cfg, "tll.host") # "" \/ Get(cfg, "name") # "" THEN "EINVAL"
              ELSE IF ~Returns(r) THEN "hang"
              ELSE IF r.st # "impl" THEN "ENOENT"
              ELSE IF name \in DOMAIN registry THEN "EEXIST"
              ELSE "0"
    IN  /\ Running
        /\ registry' = IF rc = "0" THEN registry @@ (name :> Alias(r.url)) ELSE registry
        /\ res' = Res("alias_reg", name, cfg, rc, NoImpl,
                      IF rc = "0" THEN r.url ELSE NullUrl, NoPath)

\* alias_unreg(name, cfg)
AliasUnreg(name, cfg) ==
    LET rc == IF name = Empty THEN "EINVAL"
              ELSE IF name \notin DOMAIN registry THEN "ENOENT"
              ELSE IF registry[name].kind # "alias" THEN "EINVAL"
              ELSE IF registry[name].url.proto # cfg.proto THEN "EINVAL"
              ELSE "0"
    IN  /\ Running
        /\ registry' = IF rc = "0" THEN Without(registry, name) ELSE registry
        /\ res' = Res("alias_unreg", name, cfg, rc, NoImpl, NullUrl, NoPath)

\* lookup(Url & url), as tll_channel_context_t::init calls it on its copy of the url
Lookup(url) ==
    LET r == Resolve(registry, url) IN
    /\ Running
    /\ registry' = registry
    /\ res' = Res("lookup", url.proto, url,
                  IF Returns(r) THEN r.st ELSE "hang", r.impl, r.url, r.path)

\* tll_channel_impl_get(ctx, name)
ImplGet(name) ==
    LET e == lookup(registry, name) IN
    /\ Running
    /\ registry' = registry
    /\ res' = Res("impl_get", name, NullUrl,
                  IF e.kind = "impl" THEN "impl" ELSE "null", e.impl, NullUrl, NoPath)

----------------------------------------------------------------------------
(* Inputs of the registry specification *)

S_prefixEcho == S_prefixP \o S_echo

S_aliasEcho == S_aliasP \o S_echo

RegInputs == {<<"Echo", Empty>>, <<"Prefix", Empty>>, <<"Echo", S_alias>>}

UnregInputs == RegInputs \cup {<<"Prefix", S_echo>>}

AliasInputs ==
    { <<S_aliasP, Url(S_prefixP, "", NoKeys)>>,
      <<S_alias, Url(S_echo, "", K("null", "yes"))>>,
      <<S_alias, Url(S_aliasEcho, "", NoKeys)>>,
      <<S_aliasEcho, Url(S_prefixP, "", NoKeys)>>,
      <<S_prefixEcho, Url(S_prefixEcho, "", NoKeys)>>,
      <<Empty, Url(S_echo, "", NoKeys)>>,
      <<S_alias, Url(S_echo, "host", K("name", "a"))>> }

AliasUnregInputs == AliasInputs \cup {<<S_alias, Url(S_prefixEcho, "", NoKeys)>>}

QueryProtos == {S_echo, S_alias, S_aliasEcho, S_prefixEcho, S_mudp, S_other}

QueryUrls ==
    {Url(p, "", NoKeys) : p \in QueryProtos}
    \cup {Url(S_alias, "", K("null", "no")), Url(S_mudp, "", K("udp.multicast", "no")),
          Url(S_alias, "host", K("name", "a"))}

IdleThr == /\ pc = << >> /\ loc = << >> /\ shared = << >> /\ hist = << >>

IdleCtx == /\ chans = << >> /\ channels = << >> /\ config = << >> /\ stat_list = {} /\ refs = 1

IdleCb == /\ data_cb = << >> /\ cb = << >> /\ data_order = << >>

IdleLoop ==
    /\ fd = << >> /\ list = << >> /\ list_p = << >> /\ list_pending = << >>
    /\ epoll = << >> /\ efd = {} /\ subs = << >> /\ sent = << >>

IdleChan == /\ tree = << >> /\ state = << >> /\ dcaps = << >> /\ pinned = {} /\ last = << >>

InitReg ==
    /\ registry = CtorRegistry
    /\ res = Res("ctor", Empty, NullUrl, "0", NoImpl, NullUrl, NoPath)
    /\ IdleCtx
    /\ IdleThr
    /\ IdleCb
    /\ IdleLoop
    /\ IdleChan

NextReg ==
    \/ \E i \in RegInputs : Reg(i[1], i[2]) /\ UNCHANGED <<ctxVars, chanVars, extVars>>
    \/ \E i \in UnregInputs : Unreg(i[1], i[2]) /\ UNCHANGED <<ctxVars, chanVars, extVars>>
    \/ \E i \in AliasInputs : AliasReg(i[1], i[2]) /\ UNCHANGED <<ctxVars, chanVars, extVars>>
    \/ \E i \in AliasUnregInputs : AliasUnreg(i[1], i[2]) /\ UNCHANGED <<ctxVars, chanVars, extVars>>
    \/ \E u \in QueryUrls : Lookup(u) /\ UNCHANGED <<ctxVars, chanVars, extVars>>
    \/ \E p \in QueryProtos : ImplGet(p) /\ UNCHANGED <<ctxVars, chanVars, extVars>>

SpecReg == InitReg /\ [][NextReg]_vars

----------------------------------------------------------------------------
(* Channel instantiation and destruction *)

\* the set bits of a mask, as bit positions
Bits(n) == {i \in 0..23 : (n \div (2 ^ i)) % 2 = 1}

TLL_CAPS_INPUT == Bits(4)

TLL_CAPS_OUTPUT == Bits(8)

TLL_CAPS_INOUT == TLL_CAPS_INPUT \cup TLL_CAPS_OUTPUT

TLL_CAPS_EX_BIT == Bits(8388608)

TLL_CAPS_PROXY == TLL_CAPS_EX_BIT \cup Bits(0)

TLL_CAPS_CUSTOM == TLL_CAPS_EX_BIT \cup Bits(1)

\* most channels the context of the model creates
MaxChans == 2

\* internal->name is a null pointer when the url has no name
NullName == "(null)"

\* the implementations whose init the model runs
InitImpls == {"ChNull", "ChUdp", "Echo"}

\* what (*impl->init)(c, url, master, ctx) did: its return value, c->impl and
\* whether c->internal is set when it returns
Outcome(ret, impl, internal) == [ret |-> ret, impl |-> impl, internal |-> internal]

Outcomes(i) ==
    {Outcome("0", i, TRUE), Outcome("0", i, FALSE), Outcome("EINVAL", i, TRUE)}
    \cup {Outcome("EAGAIN", j, FALSE) : j \in InitImpls \cup {NoImpl}}

\* url.getT("tll.internal", false): "err" when the value is no boolean
getT_internal(url) ==
    IF "tll.internal" \notin DOMAIN url.keys THEN "no"
    ELSE IF url.keys["tll.internal"] \in {"yes", "true", "1"} THEN "yes"
    ELSE IF url.keys["tll.internal"] \in {"no", "false", "0"} THEN "no"
    ELSE "err"

Inited(st, impl, tried) == [st |-> st, impl |-> impl, tried |-> tried]

\* the do/while loop of init that runs impl->init and follows replacements.
\* st is "ok", "fail" (init failed), "again" (a replacement that was already
\* tried), "nointernal", "crash" (caps written through a null c->internal) or
\* "spin" (more rounds than there are implementations).
RECURSIVE init_loop_nolog(_, _, _, _, _)
init_loop_nolog(beh, impl, impllog, internal, tried) ==
    LET o == beh[impl] IN
    IF Len(tried) > Cardinality(DOMAIN beh) THEN Inited("spin", impl, tried)
    ELSE IF o.ret = "EAGAIN" /\ o.impl # NoImpl /\ o.impl # impl
    THEN IF o.impl \in impllog THEN Inited("again", NoImpl, Append(tried, impl))
         ELSE init_loop_nolog(beh, o.impl, impllog, internal, Append(tried, impl))
    ELSE IF o.ret # "0" THEN Inited("fail", NoImpl, Append(tried, impl))
    ELSE IF internal /\ ~o.internal THEN Inited("crash", NoImpl, Append(tried, impl))
    ELSE IF ~o.internal THEN Inited("nointernal", NoImpl, Append(tried, impl))
    ELSE Inited("ok", o.impl, Append(tried, impl))

RECURSIVE init_loop(_, _, _, _, _)
init_loop(beh, impl, impllog, internal, tried) ==
    LET o == beh[impl] IN
    IF Len(tried) > Cardinality(DOMAIN beh) THEN Inited("spin", impl, tried)
    ELSE IF o.ret = "EAGAIN" /\ o.impl # NoImpl /\ o.impl # impl
    THEN IF o.impl \in impllog THEN Inited("again", NoImpl, Append(tried, impl))
         ELSE init_loop(beh, o.impl, impllog \cup {impl}, internal, Append(tried, impl))
    ELSE IF o.ret # "0" THEN Inited("fail", NoImpl, Append(tried, impl))
    ELSE IF internal /\ ~o.internal THEN Inited("crash", NoImpl, Append(tried, impl))
    ELSE IF ~o.internal THEN Inited("nointernal", NoImpl, Append(tried, impl))
    ELSE Inited("ok", o.impl, Append(tried, impl))

Chan(name, internal, caps, impl, stat, url) ==
    [name |-> name, internal |-> internal, caps |-> caps, impl |-> impl, stat |-> stat,
     url |-> url, alive |-> TRUE]

\* channels.emplace(name, c): an existing key keeps its channel
emplace(map, name, id) == IF name \in DOMAIN map THEN map ELSE map @@ (name :> id)

\* tll_config_set_config(config, name, cfg): replaces what is under name
set_config(map, name, id) == [n \in DOMAIN map \cup {name} |-> IF n = name THEN id ELSE map[n]]

\* tll_channel_context_t::init(url, master, impl): beh is what the init of each
\* implementation does with this url, caps the caps the successful init sets
NewChannel(u, impl_arg, beh, caps) ==
    LET r == IF impl_arg = NoImpl THEN Resolve(registry, u)
             ELSE Resolved("impl", impl_arg, u, NoPath)
        url == r.url
        internal == getT_internal(url)
        nomaster == "master" \in DOMAIN url.keys /\ url.keys["master"] \notin DOMAIN channels
        l == init_loop(beh, r.impl, {}, internal = "yes", <<>>)
        name == IF "name" \in DOMAIN url.keys THEN url.keys["name"] ELSE NullName
        stat == Get(url, "stat") = "yes"
        id == Len(chans) + 1
        rc == IF ~Returns(r) THEN "hang"
              ELSE IF r.st # "impl" THEN "null:" \o r.st
              ELSE IF internal = "err" THEN "null:internal"
              ELSE IF nomaster THEN "null:master"
              ELSE IF l.st = "crash" THEN "crash"
              ELSE IF l.st # "ok" THEN "null:" \o l.st
              ELSE "0"
        c == Chan(name, internal = "yes",
                  IF internal = "yes" THEN caps \cup TLL_CAPS_CUSTOM ELSE caps,
                  l.impl, stat, url)
        indexed == internal # "yes" /\ name # NullName
    IN  /\ Running
        /\ Len(chans) < MaxChans
        /\ r.impl \in DOMAIN beh \cup {NoImpl}
        /\ registry' = registry
        /\ IF rc = "0"
           THEN /\ chans' = Append(chans, c)
                /\ channels' = IF indexed THEN emplace(channels, name, id) ELSE channels
                /\ config' = IF indexed THEN set_config(config, name, id) ELSE config
                /\ stat_list' = IF stat THEN stat_list \cup {id} ELSE stat_list
                /\ refs' = refs + 1
                /\ res' = ResN("new", url.proto, u, rc, l.impl, url, r.path, id, beh, impl_arg, l.tried)
           ELSE /\ UNCHANGED ctxVars
                /\ res' = ResN("new", u.proto, u, rc, NoImpl, url, r.path, 0, beh, impl_arg,
                              IF Returns(r) /\ r.st = "impl" /\ internal # "err" /\ ~nomaster
                              THEN l.tried ELSE <<>>)

\* context.get(name)
get(name) == IF name \in DOMAIN channels THEN channels[name] ELSE 0

\* tll_channel_get(ctx, name)
ChannelGet(name) ==
    /\ Running
    /\ res' = ResC("get", Empty, Url(Empty, "", K("name", name)), "0", NoImpl, NullUrl, NoPath,
                   get(name), NoBeh)
    /\ UNCHANGED <<registry, ctxVars>>

\* the channel whose (caps & Custom) == 0 decides whether free erases its name
erases(c) == c.caps \cap TLL_CAPS_CUSTOM = {}

\* tll_channel_free(c) of a live channel. A null internal->name makes the
\* std::string_view of line 538 undefined: the call crashes, or goes on with
\* an empty name (asEmpty).
ChannelFree(id, asEmpty) ==
    LET c == chans[id]
        name == IF c.name = NullName THEN "" ELSE c.name
    IN  /\ Running
        /\ c.alive
        /\ registry' = registry
        /\ IF c.name = NullName /\ ~asEmpty
           THEN /\ UNCHANGED ctxVars
                /\ res' = ResC("free", Empty, NullUrl, "crash", c.impl, NullUrl, NoPath, id, res.beh)
           ELSE /\ stat_list' = IF c.stat THEN stat_list \ {id} ELSE stat_list
                /\ channels' = IF erases(c) THEN Without(channels, name) ELSE channels
                /\ config' = IF erases(c) THEN Without(config, name) ELSE config
                /\ chans' = [chans EXCEPT ![id].alive = FALSE]
                /\ refs' = refs - 1
                /\ res' = ResC("free", Empty, NullUrl, "0", c.impl, NullUrl, NoPath, id, res.beh)

----------------------------------------------------------------------------
(* Inputs of the context specification *)

\* init succeeds for every implementation
BehOk == [i \in InitImpls |-> Outcome("0", i, TRUE)]

\* Echo::_init_replace with null=yes: Echo asks for Null, here the built-in null
BehEchoNull == [BehOk EXCEPT !["Echo"] = Outcome("EAGAIN", "ChNull", FALSE)]

BehNullFails == [BehOk EXCEPT !["ChNull"] = Outcome("EINVAL", "ChNull", TRUE)]

CtxBehs == {BehOk, BehEchoNull, BehNullFails}

Named(p, n) == Url(p, "", K("name", n))

NewInputs ==
    { <<Named(S_null, "a"), NoImpl>>,
      <<Named(S_mudp, "a"), NoImpl>>,
      <<Url(S_mudp, "", K("name", "b") @@ K("udp.multicast", "no")), NoImpl>>,
      <<Url(S_null, "", K("name", "a") @@ K("tll.internal", "yes")), NoImpl>>,
      <<Url(S_null, "", K("name", "b") @@ K("tll.internal", "maybe")), NoImpl>>,
      <<Url(S_null, "", NoKeys), NoImpl>>,
      <<Named(S_other, "b"), NoImpl>>,
      <<Url(S_udp, "", K("name", "b") @@ K("master", "a")), NoImpl>>,
      <<Url(S_udp, "", K("name", "b") @@ K("stat", "yes")), NoImpl>>,
      <<Named(S_echo, "b"), "Echo">> }

CapsInputs == {TLL_CAPS_INOUT, TLL_CAPS_INPUT}

\* a named channel whose init sets the Proxy cap
ProxyInput == Url(S_null, "", K("name", "a"))

ProxyCaps == TLL_CAPS_INOUT \cup TLL_CAPS_PROXY

ChanNames == {"a", "b", ""}

InitCtx ==
    /\ registry = CtorRegistry
    /\ res = Res("ctor", Empty, NullUrl, "0", NoImpl, NullUrl, NoPath)
    /\ IdleCtx
    /\ IdleThr
    /\ IdleCb
    /\ IdleLoop
    /\ IdleChan

NextCtx ==
    \/ \E i \in NewInputs, b \in CtxBehs, caps \in CapsInputs :
          NewChannel(i[1], i[2], b, caps) /\ UNCHANGED <<chanVars, extVars>>
    \/ NewChannel(ProxyInput, NoImpl, BehOk, ProxyCaps) /\ UNCHANGED <<chanVars, extVars>>
    \/ \E id \in DOMAIN chans, e \in BOOLEAN : ChannelFree(id, e) /\ UNCHANGED <<chanVars, extVars>>
    \/ \E n \in ChanNames : ChannelGet(n) /\ UNCHANGED <<chanVars, extVars>>

SpecCtx == InitCtx /\ [][NextCtx]_vars

----------------------------------------------------------------------------
(* Registration followed by resolution and instantiation *)

\* the registrations of TEST(Channel, Register), and Echo under a name with '+'
NameInputs ==
    {<<"Echo", Empty>>, <<"Prefix", Empty>>, <<"Echo", S_alias>>, <<"Echo", S_prefixEcho>>}

\* Prefix::_init succeeds when its child channel can be created
BehPrefixOk == BehOk @@ ("Prefix" :> Outcome("0", "Prefix", TRUE))

BehPrefixFails == BehOk @@ ("Prefix" :> Outcome("EINVAL", "Prefix", TRUE))

NameBehs == {BehPrefixOk, BehPrefixFails}

NextName ==
    \/ \E i \in NameInputs : Reg(i[1], i[2]) /\ UNCHANGED <<ctxVars, chanVars, extVars>>
    \/ \E i \in NameInputs : Unreg(i[1], i[2]) /\ UNCHANGED <<ctxVars, chanVars, extVars>>
    \/ \E i \in NameInputs : ImplGet(KeyOf(i[1], i[2])) /\ UNCHANGED <<ctxVars, chanVars, extVars>>
    \/ \E i \in NameInputs, b \in NameBehs :
          NewChannel(Url(KeyOf(i[1], i[2]), "", NoKeys), NoImpl, b, TLL_CAPS_INOUT)
          /\ UNCHANGED <<chanVars, extVars>>

SpecName == InitCtx /\ [][NextName]_vars

----------------------------------------------------------------------------
(* Dynamic caps: process, suspend and resume on a tree of channels *)

TLL_DCAPS_POLLIN == Bits(1)

TLL_DCAPS_POLLOUT == Bits(2)

TLL_DCAPS_PROCESS == Bits(16)

TLL_DCAPS_PENDING == Bits(32)

TLL_DCAPS_SUSPEND == Bits(64)

TLL_DCAPS_SUSPEND_PERMANENT == Bits(112)

\* the null channel pointer
NullChan == 0

\* tll::dcaps::need_process(dcaps): Process set and Suspend clear
need_process(d) == TLL_DCAPS_PROCESS \subseteq d /\ d \cap TLL_DCAPS_SUSPEND = {}

\* what the call did: its return value and whether impl->process was called
Processed(rc, called) == [rc |-> rc, called |-> called]

tll_channel_process_unguarded(isNull, hasImpl, hasInternal, d, r) ==
    IF isNull \/ ~hasImpl \/ ~hasInternal THEN Processed("EINVAL", FALSE)
    ELSE Processed(r, TRUE)

\* tll_channel_process(c, timeout, flags), r what impl->process returns
tll_channel_process(isNull, hasImpl, hasInternal, d, r) ==
    IF isNull \/ ~hasImpl \/ ~hasInternal THEN Processed("EINVAL", FALSE)
    ELSE IF ~need_process(d) THEN Processed("EAGAIN", FALSE)
    ELSE Processed(r, TRUE)

\* every channel below c in the child lists of t
RECURSIVE descendants(_, _)
descendants(t, c) == UNION {{k} \cup descendants(t, k) : k \in Range(t[c])}

RECURSIVE suspend(_, _, _)
RECURSIVE suspend_children(_, _, _)
RECURSIVE resume(_, _, _)
RECURSIVE resume_children(_, _, _)

suspend_shallow(t, d, c) == [d EXCEPT ![c] = @ \cup TLL_DCAPS_SUSPEND]

\* the loop over c->internal->children in suspend
suspend_children(t, d, kids) ==
    IF kids = << >> THEN d
    ELSE suspend_children(t, suspend(t, d, Head(kids)), Tail(kids))

\* suspend(c) of the anonymous namespace
suspend(t, d, c) ==
    suspend_children(t, [d EXCEPT ![c] = @ \cup TLL_DCAPS_SUSPEND], t[c])

\* the loop over c->internal->children in resume
resume_children(t, d, kids) ==
    IF kids = << >> THEN d
    ELSE resume_children(t, resume(t, d, Head(kids)), Tail(kids))

resume_unconditional(t, d, c) ==
    resume_children(t, [d EXCEPT ![c] = @ \ TLL_DCAPS_SUSPEND], t[c])

\* resume(c) of the anonymous namespace
resume(t, d, c) ==
    IF d[c] \cap TLL_DCAPS_SUSPEND_PERMANENT # {} THEN d
    ELSE resume_children(t, [d EXCEPT ![c] = @ \ TLL_DCAPS_SUSPEND], t[c])

\* what a call was given: whether the channel object has an impl and an internal
\* block, and what its impl->process returns when called
Arg(hasImpl, hasInternal, ret) == [impl |-> hasImpl, internal |-> hasInternal, ret |-> ret]

\* the last call on a channel: before is dcaps when it was made, edges the
\* state changes it made, in order
Last(op, c, arg, rc, called, before, edges) ==
    [op |-> op, c |-> c, arg |-> arg, rc |-> rc, called |-> called, before |-> before,
     edges |-> edges]

\* tll_channel_process on channel c, on a channel object without impl or
\* internal block, or on the null pointer
ChannelProcess(c, hasImpl, hasInternal, r) ==
    LET d == IF c = NullChan \/ ~hasInternal THEN {} ELSE dcaps[c]
        p == tll_channel_process(c = NullChan, hasImpl, hasInternal, d, r)
    IN  /\ last' = Last("process", c, Arg(hasImpl, hasInternal, r), p.rc, p.called, dcaps, << >>)
        /\ UNCHANGED <<tree, state, dcaps, pinned>>

\* tll_channel_suspend(c); pinned records the channels suspended by their own call
ChannelSuspend(c, hasInternal) ==
    IF c = NullChan \/ ~hasInternal
    THEN /\ last' = Last("suspend", c, Arg(TRUE, hasInternal, "0"), "EINVAL", FALSE, dcaps, << >>)
         /\ UNCHANGED <<tree, state, dcaps, pinned>>
    ELSE /\ dcaps' = suspend(tree, [dcaps EXCEPT ![c] = @ \cup TLL_DCAPS_SUSPEND_PERMANENT], c)
         /\ pinned' = pinned \cup {c}
         /\ last' = Last("suspend", c, Arg(TRUE, hasInternal, "0"), "0", FALSE, dcaps, << >>)
         /\ UNCHANGED <<tree, state>>

\* tll_channel_resume(c)
ChannelResume(c, hasInternal) ==
    IF c = NullChan \/ ~hasInternal
    THEN /\ last' = Last("resume", c, Arg(TRUE, hasInternal, "0"), "EINVAL", FALSE, dcaps, << >>)
         /\ UNCHANGED <<tree, state, dcaps, pinned>>
    ELSE /\ dcaps' = resume(tree, [dcaps EXCEPT ![c] = @ \ TLL_DCAPS_SUSPEND_PERMANENT], c)
         /\ pinned' = pinned \ {c}
         /\ last' = Last("resume", c, Arg(TRUE, hasInternal, "0"), "0", FALSE, dcaps, << >>)
         /\ UNCHANGED <<tree, state>>

\* deepest stack of channels of the model
MaxDepth == 3

\* a stack of n channels, each the only child of the one before (prefix+...+echo)
Chain(n) == [c \in 1..n |-> IF c < n THEN <<c + 1>> ELSE << >>]

\* a channel with two children (a server and its connections)
Fork == [c \in 1..3 |-> IF c = 1 THEN <<2, 3>> ELSE << >>]

TreeShapes == {Chain(n) : n \in 1..MaxDepth} \cup {Fork}

InitDcaps == {TLL_DCAPS_POLLIN, TLL_DCAPS_PROCESS}

ProcessRets == {"0", "EAGAIN", "EINVAL"}

IdleReg == /\ registry = CtorRegistry /\ res = Res("ctor", Empty, NullUrl, "0", NoImpl, NullUrl, NoPath)

InitSusp ==
    /\ IdleReg
    /\ IdleCtx
    /\ IdleThr
    /\ IdleCb
    /\ IdleLoop
    /\ tree \in TreeShapes
    /\ dcaps \in [DOMAIN tree -> InitDcaps]
    /\ state = [c \in DOMAIN tree |-> "Closed"]
    /\ pinned = {}
    /\ last = Last("init", NullChan, Arg(TRUE, TRUE, "0"), "0", FALSE, dcaps, << >>)

NextSusp ==
    \/ \E c \in DOMAIN tree \cup {NullChan}, i, n \in BOOLEAN, r \in ProcessRets :
          ChannelProcess(c, i, n, r) /\ UNCHANGED <<regVars, ctxVars, extVars>>
    \/ \E c \in DOMAIN tree \cup {NullChan}, n \in BOOLEAN :
          ChannelSuspend(c, n) /\ UNCHANGED <<regVars, ctxVars, extVars>>
    \/ \E c \in DOMAIN tree \cup {NullChan}, n \in BOOLEAN :
          ChannelResume(c, n) /\ UNCHANGED <<regVars, ctxVars, extVars>>

SpecSusp == InitSusp /\ [][NextSusp]_vars

----------------------------------------------------------------------------
(* Channel states: a prefix channel (1) over its child (2) *)

States == {"Closed", "Opening", "Active", "Closing", "Error", "Destroy"}

\* the changes the comments of tll_state_t give for each state
Edges ==
    { <<"Closed", "Opening">>, <<"Closed", "Destroy">>,
      <<"Opening", "Active">>, <<"Opening", "Error">>,
      <<"Active", "Closing">>, <<"Active", "Error">>,
      <<"Closing", "Closed">>, <<"Closing", "Error">>,
      <<"Error", "Closed">> }

\* the channels of a stack and what happened during a call: t the child lists,
\* st the states, edges the state changes made so far, bad the prefix channels
\* whose derived class has an _on_active that returns an error
World(t, st, edges, bad) == [t |-> t, st |-> st, edges |-> edges, bad |-> bad]

\* the channels that subscribed to c with the STATE mask: the prefix channel
\* that created c (_child->callback_add(this) in Prefix::_init)
Subscribers(t, c) == {p \in DOMAIN t : c \in Range(t[p])}

RECURSIVE SetState(_, _, _)
RECURSIVE on_state(_, _, _)

\* the state setter of the channel base: stores s and emits STATE s, which
\* Prefix::callback of the subscribed prefix channel hands to its _on_state
SetState(w, c, s) ==
    IF w.st[c] = s THEN w
    ELSE LET w1 == [w EXCEPT !.st[c] = s, !.edges = Append(@, <<c, w.st[c], s>>)] IN
         IF Subscribers(w.t, c) = {} THEN w1
         ELSE on_state(w1, CHOOSE p \in Subscribers(w.t, c) : TRUE, s)

\* Base<T>::_close(): the close is finished, the channel is Closed
Base_close(w, c) == SetState(w, c, "Closed")

\* Prefix::_on_active
on_active(w, p) == SetState(w, p, "Active")

\* Prefix::_on_error
on_error(w, p) == SetState(w, p, "Error")

\* Prefix::_on_closing
on_closing(w, p) ==
    IF w.st[p] \in {"Opening", "Active"} THEN SetState(w, p, "Closing") ELSE w

\* a prefix channel that leaves the end of its child's close unanswered
on_closed_ignored(w, p) == w

\* Prefix::_on_closed
on_closed(w, p) ==
    IF w.st[p] = "Closing" THEN Base_close(w, p) ELSE w

\* Prefix::_on_state(msg) of prefix channel p for the STATE message s of its child
on_state(w, p, s) ==
    IF s = "Active"
    THEN IF p \in w.bad THEN SetState(w, p, "Error")
         ELSE SetState(on_active(w, p), p, s)
    ELSE IF s = "Error" THEN on_error(w, p)
    ELSE IF s = "Closing" THEN on_closing(w, p)
    ELSE IF s = "Closed" THEN on_closed(w, p)
    ELSE SetState(w, p, s)

\* what open returned and what it left
Opened(ok, w) == [ok |-> ok, w |-> w]

\* open on channel c: the base refuses unless Closed and enters Opening; a
\* prefix channel then opens its child in Prefix::_open, and a failed _open
\* ends in Error; the channel at the bottom has a manual open and stays Opening
RECURSIVE Open(_, _)
Open(w, c) ==
    IF w.st[c] # "Closed" THEN Opened(FALSE, w)
    ELSE LET w1 == SetState(w, c, "Opening") IN
         IF w.t[c] = << >> THEN Opened(TRUE, w1)
         ELSE LET o == Open(w1, w.t[c][1]) IN
              IF o.ok THEN o ELSE Opened(FALSE, SetState(o.w, c, "Error"))

\* close on channel c: nothing when Closed or Closing, else the base enters
\* Closing; a prefix channel then closes its child in Prefix::_close; the close
\* is long: the channel at the bottom stays Closing until it finishes later
RECURSIVE Close(_, _)
Close(w, c) ==
    IF w.st[c] \in {"Closed", "Closing"} THEN w
    ELSE LET w1 == SetState(w, c, "Closing") IN
         IF w.t[c] = << >> THEN w1 ELSE Close(w1, w.t[c][1])

NoDcaps == [c \in DOMAIN tree |-> {}]

Bottom == Len(tree)

\* the channel at the bottom makes one of the changes its state allows, by
\* itself or in its process
ChildState(s, bad) ==
    LET w == SetState(World(tree, state, << >>, bad), Bottom, s) IN
    /\ <<state[Bottom], s>> \in Edges
    /\ state' = w.st
    /\ last' = Last("child", Bottom, Arg(TRUE, TRUE, s), "0", bad = {}, NoDcaps, w.edges)
    /\ UNCHANGED <<tree, dcaps, pinned>>

\* tll_channel_open on a prefix channel
PrefixOpen(c, bad) ==
    LET o == Open(World(tree, state, << >>, bad), c) IN
    /\ state' = o.w.st
    /\ last' = Last("open", c, Arg(TRUE, TRUE, "0"), IF o.ok THEN "0" ELSE "EINVAL", bad = {},
                    NoDcaps, o.w.edges)
    /\ UNCHANGED <<tree, dcaps, pinned>>

\* tll_channel_close on a prefix channel
PrefixClose(c, bad) ==
    LET w == Close(World(tree, state, << >>, bad), c) IN
    /\ state' = w.st
    /\ last' = Last("close", c, Arg(TRUE, TRUE, "0"), "0", bad = {}, NoDcaps, w.edges)
    /\ UNCHANGED <<tree, dcaps, pinned>>

\* the derived classes of the stack: every hook the default, or the _on_active
\* of the outermost prefix channel returns an error
BadHooks == {{}, {1}}

InitPrefix ==
    /\ IdleReg
    /\ IdleCtx
    /\ IdleThr
    /\ IdleCb
    /\ IdleLoop
    /\ tree \in {Chain(n) : n \in 2..MaxDepth}
    /\ state = [c \in DOMAIN tree |-> "Closed"]
    /\ dcaps = NoDcaps
    /\ pinned = {}
    /\ last = Last("init", NullChan, Arg(TRUE, TRUE, "0"), "0", FALSE, NoDcaps, << >>)

NextPrefix ==
    \/ \E s \in States, bad \in BadHooks :
          /\ "Destroy" \notin Range(state)
          /\ ChildState(s, bad)
          /\ UNCHANGED <<regVars, ctxVars, extVars>>
    \/ \E c \in DOMAIN tree \ {Bottom}, bad \in BadHooks :
          /\ "Destroy" \notin Range(state)
          /\ PrefixOpen(c, bad)
          /\ UNCHANGED <<regVars, ctxVars, extVars>>
    \/ \E c \in DOMAIN tree \ {Bottom}, bad \in BadHooks :
          /\ "Destroy" \notin Range(state)
          /\ PrefixClose(c, bad)
          /\ UNCHANGED <<regVars, ctxVars, extVars>>

SpecPrefix == InitPrefix /\ [][NextPrefix]_vars

----------------------------------------------------------------------------
(* Claims about the registry and protocol resolution, under SpecReg *)

\* the indexes of '+' in P
Pluses(P) == {i \in 1..Len(P) : P[i] = Plus}

\* P up to and including its first '+' (P has one)
UpToFirstPlus(P) ==
    LET m == CHOOSE i \in Pluses(P) : \A j \in Pluses(P) : i <= j IN [i \in 1..m |-> P[i]]

\* P after its first '+' (P has one)
AfterFirstPlus(P) ==
    LET m == CHOOSE i \in Pluses(P) : \A j \in Pluses(P) : i <= j IN [i \in 1..(Len(P) - m) |-> P[m + i]]

\* the entry the resolution rules name for P in the registry reg
ExpectedEntry(reg, P) ==
    IF P \in DOMAIN reg THEN reg[P]
    ELSE IF Pluses(P) # {} /\ UpToFirstPlus(P) \in DOMAIN reg THEN reg[UpToFirstPlus(P)]
    ELSE NotFound

\* C2: lookup(P) returns the entry stored under P when P is a key; otherwise,
\* when P has a '+', the entry stored under P up to and including its first
\* '+'; otherwise, or when that prefix is no key, not found. The exact key wins
\* over the prefix. tll_channel_impl_get returns the impl of that entry, and
\* null when the entry is an alias or missing.
C2_LookupExactThenPrefix ==
    /\ \A P \in QueryProtos : lookup(registry, P) = ExpectedEntry(registry, P)
    /\ res.op = "impl_get" =>
          LET e == ExpectedEntry(registry, res.name) IN
          /\ res.rc = (IF e.kind = "impl" THEN "impl" ELSE "null")
          /\ res.impl = e.impl

\* C2 witness: impl_get of a P that is a key (an alias) while P's prefix up to
\* the first '+' is another key (an impl): the exact key won, null is returned
C2_Witness ==
    /\ res.op = "impl_get"
    /\ res.name \in DOMAIN registry
    /\ Pluses(res.name) # {}
    /\ UpToFirstPlus(res.name) \in DOMAIN registry
    /\ UpToFirstPlus(res.name) # res.name
    /\ registry[UpToFirstPlus(res.name)].kind = "impl"
    /\ res.rc = "null"

\* the urls of a resolution in order: those it left behind, then the last one
Visited(r) == Append(r.path, r.url)

\* C3 as amended: at every alias step of a resolution, from protocol P to the
\* alias protocol A, the next protocol is A followed by the part of P after
\* its first '+' whenever P has a '+' and A ends in '+', whether P matched as
\* an exact key or through its prefix; otherwise it is exactly A.
C3_RewriteAppendsWhenBothPlus ==
    res.op = "lookup" =>
        \A i \in 1..Len(res.path) :
            LET P == res.path[i].proto
                A == ExpectedEntry(registry, P).url.proto
                N == Visited(res)[i + 1].proto
            IN  N = IF Pluses(P) # {} /\ A[Len(A)] = Plus
                    THEN A \o AfterFirstPlus(P)
                    ELSE A

\* C3 as stated: the remainder of P is appended only when P matched through
\* its prefix (P itself is no key) and A ends in '+'; in every other case,
\* an exact-key match of a P with '+' included, the next protocol is A.
C3_RewriteOnlyOnPrefixMatch ==
    res.op = "lookup" =>
        \A i \in 1..Len(res.path) :
            LET P == res.path[i].proto
                A == ExpectedEntry(registry, P).url.proto
                N == Visited(res)[i + 1].proto
            IN  N = IF P \notin DOMAIN registry /\ Pluses(P) # {} /\ A[Len(A)] = Plus
                    THEN A \o AfterFirstPlus(P)
                    ELSE A

\* C3 witness: alias+echo is itself a key, an alias of prefix+, and its
\* resolution went on with prefix+echo
C3_Witness ==
    /\ res.op = "lookup"
    /\ res.name = S_aliasEcho
    /\ S_aliasEcho \in DOMAIN registry
    /\ registry[S_aliasEcho].kind = "alias"
    /\ registry[S_aliasEcho].url.proto = S_prefixP
    /\ Len(res.path) = 1
    /\ res.url.proto = S_prefixEcho
    /\ res.rc = "impl"

\* C4: in every registry built by accepted calls, the resolution of every
\* requested protocol ends, on an impl or with a failure: no call of lookup
\* (from new_channel or from alias_reg) runs forever.
C4_ResolutionTerminates ==
    /\ res.rc # "hang"
    /\ \A u \in QueryUrls : Returns(Resolve(registry, u))

----------------------------------------------------------------------------
(* Claims about the name index and alias merging, under SpecCtx *)

\* C1: every live channel with a non-empty name that was not created with
\* tll.internal=yes is what context.get returns for its name, after any
\* creations (a name already in use included) and frees.
C1_LiveNamedChannelIsIndexed ==
    \A id \in DOMAIN chans :
        LET c == chans[id] IN
        (c.alive /\ c.name \notin {NullName, ""} /\ ~c.internal) => get(c.name) = id

\* C5: when new_channel resolves its url through an alias, every key of the
\* alias url but tll.proto and tll.host is copied into the url the channel is
\* created with, which keeps the caller's keys and host: it holds the union;
\* when the caller's url already has one of these keys, new_channel returns
\* null and creates nothing.
C5_AliasKeysMergedOrRejected ==
    (res.op = "new" /\ res.arg = NoImpl /\ ExpectedEntry(registry, res.in.proto).kind = "alias") =>
        LET a == ExpectedEntry(registry, res.in.proto).url
            akeys == DOMAIN a.keys
            ckeys == DOMAIN res.in.keys
        IN  IF akeys \cap ckeys # {}
            THEN res.rc = "null:dup" /\ res.id = 0
            ELSE res.rc = "0" =>
                    /\ res.id = Len(chans)
                    /\ chans[res.id].url.host = res.in.host
                    /\ DOMAIN chans[res.id].url.keys = akeys \cup ckeys
                    /\ \A k \in ckeys : chans[res.id].url.keys[k] = res.in.keys[k]
                    /\ \A k \in akeys : chans[res.id].url.keys[k] = a.keys[k]

\* C5 witness: mudp://;name=... created a channel whose url has the caller's
\* name and the alias's udp.multicast=yes
C5_Witness ==
    /\ res.op = "new"
    /\ res.rc = "0"
    /\ res.in.proto = S_mudp
    /\ res.impl = "ChUdp"
    /\ chans[res.id].url.proto = S_udp
    /\ DOMAIN chans[res.id].url.keys = {"name", "udp.multicast"}
    /\ chans[res.id].url.keys["udp.multicast"] = "yes"

----------------------------------------------------------------------------
(* The reinitialization loop, under SpecInit: the behaviour of every init is
   drawn when the context is made and stays what it is *)

AllOutcomes == UNION {Outcomes(i) : i \in InitImpls}

AllBehs == {b \in [InitImpls -> AllOutcomes] : \A i \in InitImpls : b[i] \in Outcomes(i)}

InitInputs ==
    { <<Named(S_null, "a"), NoImpl>>,
      <<Named(S_udp, "b"), NoImpl>>,
      <<Url(S_null, "", K("name", "c") @@ K("tll.internal", "yes")), NoImpl>>,
      <<Named(S_echo, "b"), "Echo">> }

InitInit ==
    /\ registry = CtorRegistry
    /\ \E b \in AllBehs : res = ResC("ctor", Empty, NullUrl, "0", NoImpl, NullUrl, NoPath, 0, b)
    /\ IdleCtx
    /\ IdleThr
    /\ IdleCb
    /\ IdleLoop
    /\ IdleChan

NextInit ==
    \/ \E i \in InitInputs, caps \in CapsInputs :
          NewChannel(i[1], i[2], res.beh, caps) /\ UNCHANGED <<chanVars, extVars>>
    \/ \E id \in DOMAIN chans : ChannelFree(id, FALSE) /\ UNCHANGED <<chanVars, extVars>>

SpecInit == InitInit /\ [][NextInit]_vars

----------------------------------------------------------------------------
(* Claims about process, suspend and resume, under SpecSusp *)

\* C8: tll_channel_process(c) returns EINVAL when c, its impl or its internal
\* block is null; otherwise it returns EAGAIN without calling impl.process when
\* c's dcaps have Suspend set or Process clear; only otherwise does it call
\* impl.process, and it returns what that call returns.
C8_ProcessGuards ==
    last.op = "process" =>
        IF last.c = NullChan \/ ~last.arg.impl \/ ~last.arg.internal
        THEN last.rc = "EINVAL" /\ ~last.called
        ELSE IF TLL_DCAPS_SUSPEND \subseteq dcaps[last.c] \/ ~(TLL_DCAPS_PROCESS \subseteq dcaps[last.c])
        THEN last.rc = "EAGAIN" /\ ~last.called
        ELSE last.called /\ last.rc = last.arg.ret

\* C8 witness: a suspended channel that has Process set was processed, and
\* impl.process was not called
C8_Witness ==
    /\ last.op = "process"
    /\ last.c # NullChan /\ last.arg.impl /\ last.arg.internal
    /\ TLL_DCAPS_PROCESS \cup TLL_DCAPS_SUSPEND \subseteq dcaps[last.c]
    /\ last.rc = "EAGAIN"
    /\ ~last.called
    /\ last.arg.ret = "0"

\* C9 as the code has it: after tll_channel_suspend(c) returns 0, c carries
\* Suspend and every bit of SuspendPermanent, every descendant of c carries
\* Suspend on top of the dcaps it had, and no other channel has changed.
C9_SuspendSetsSuspendBelow ==
    (last.op = "suspend" /\ last.rc = "0") =>
        /\ dcaps[last.c] = last.before[last.c] \cup TLL_DCAPS_SUSPEND_PERMANENT
        /\ \A k \in descendants(tree, last.c) : dcaps[k] = last.before[k] \cup TLL_DCAPS_SUSPEND
        /\ \A k \in DOMAIN tree \ (descendants(tree, last.c) \cup {last.c}) : dcaps[k] = last.before[k]

\* C9 as stated: after tll_channel_suspend(c) returns 0, c and every descendant
\* of c carry both Suspend and SuspendPermanent.
C9_SuspendSetsPermanentBelow ==
    (last.op = "suspend" /\ last.rc = "0") =>
        \A k \in descendants(tree, last.c) \cup {last.c} :
            TLL_DCAPS_SUSPEND \cup TLL_DCAPS_SUSPEND_PERMANENT \subseteq dcaps[k]

\* C9 witness: a channel with a grandchild was suspended; the grandchild has
\* Suspend and lacks a bit of SuspendPermanent
C9_Witness ==
    /\ last.op = "suspend"
    /\ last.rc = "0"
    /\ \E k \in descendants(tree, last.c) :
          /\ descendants(tree, k) # {}
          /\ \A g \in descendants(tree, k) :
                /\ TLL_DCAPS_SUSPEND \subseteq dcaps[g]
                /\ ~(TLL_DCAPS_SUSPEND_PERMANENT \subseteq dcaps[g])

\* C10: tll_channel_suspend(c) followed at once by tll_channel_resume(c), with
\* no descendant of c suspended by a call of its own, leaves Suspend clear on c
\* and on every descendant of c.
C10_SuspendResumeClearsSuspend ==
    [][(/\ last.op = "suspend" /\ last.rc = "0"
        /\ last'.op = "resume" /\ last'.rc = "0" /\ last'.c = last.c
        /\ pinned \cap descendants(tree, last.c) = {})
       => \A k \in descendants(tree, last.c) \cup {last.c} : dcaps'[k] \cap TLL_DCAPS_SUSPEND = {}]_vars

----------------------------------------------------------------------------
(* Claims about the states of a prefix channel, under SpecPrefix *)

\* the edges of the claim: Closed -> Opening -> Active -> Closing -> Closed,
\* Error from every other state but Destroy, Destroy from Closed; with them the
\* ways out of Error and the close of an opening channel that the source has
StateEdges ==
    { <<"Closed", "Opening">>, <<"Opening", "Active">>, <<"Active", "Closing">>,
      <<"Closing", "Closed">>, <<"Closed", "Destroy">> }
    \cup {<<s, "Error">> : s \in {"Closed", "Opening", "Active", "Closing"}}
    \cup {<<"Error", "Closed">>, <<"Error", "Closing">>, <<"Opening", "Closing">>}

\* C7: every state change of a channel, the prefix channel driven by the STATE
\* messages of its child included, follows an edge of the state machine.
C7_StateChangesFollowEdges ==
    \A i \in DOMAIN last.edges : <<last.edges[i][2], last.edges[i][3]>> \in StateEdges

----------------------------------------------------------------------------
(* More claims about suspend and resume, under SpecSusp *)

----------------------------------------------------------------------------
(* The callback tables of a channel: src/channel/context.cc *)

TLL_MESSAGE_MASK_DATA == Bits(1)

TLL_MESSAGE_MASK_CONTROL == Bits(2)

TLL_MESSAGE_MASK_STATE == Bits(4)

TLL_MESSAGE_MASK_CHANNEL == Bits(8)

\* the null function pointer and the null user pointer
NullCb == 0

NullUser == 0

\* tll_channel_callback_pair_t
Pair(f, u, mask) == [cb |-> f, user |-> u, mask |-> mask]

\* a slot that callback_del has cleared
EmptySlot == Pair(NullCb, NullUser, {})

\* the loop of callback_add from slot i on: found is the slot that holds the
\* pair of p (0: none), empty the first empty slot (0: none)
RECURSIVE callback_add_scan(_, _, _, _)
callback_add_scan(tab, p, i, empty) ==
    IF i > Len(tab) THEN [found |-> 0, empty |-> empty]
    ELSE IF tab[i].cb = NullCb /\ empty = 0 THEN callback_add_scan(tab, p, i + 1, i)
    ELSE IF tab[i].cb = p.cb /\ tab[i].user = p.user THEN [found |-> i, empty |-> empty]
    ELSE callback_add_scan(tab, p, i + 1, empty)

\* callback_add that stops its scan at the first empty slot
callback_add_first_empty(tab, p, oom) ==
    LET e == {i \in DOMAIN tab : tab[i].cb = NullCb}
        first == IF e = {} THEN 0 ELSE CHOOSE i \in e : \A j \in e : i <= j
        s == callback_add_scan(IF first = 0 THEN tab ELSE SubSeq(tab, 1, first), p, 1, 0)
    IN  IF s.found # 0 THEN [tab |-> [tab EXCEPT ![s.found].mask = @ \cup p.mask], rc |-> "0"]
        ELSE IF s.empty # 0 THEN [tab |-> [tab EXCEPT ![s.empty] = p], rc |-> "0"]
        ELSE IF oom THEN [tab |-> tab, rc |-> "ENOMEM"]
        ELSE [tab |-> Append(tab, p), rc |-> "0"]

\* callback_add that always appends a pair it does not find
callback_add_append(tab, p, oom) ==
    LET s == callback_add_scan(tab, p, 1, 0) IN
    IF s.found # 0 THEN [tab |-> [tab EXCEPT ![s.found].mask = @ \cup p.mask], rc |-> "0"]
    ELSE IF oom THEN [tab |-> tab, rc |-> "ENOMEM"]
    ELSE [tab |-> Append(tab, p), rc |-> "0"]

\* callback_add(&c, size, cb): tab is c[0 .. size), oom says that realloc fails
callback_add(tab, p, oom) ==
    LET s == callback_add_scan(tab, p, 1, 0) IN
    IF s.found # 0 THEN [tab |-> [tab EXCEPT ![s.found].mask = @ \cup p.mask], rc |-> "0"]
    ELSE IF s.empty # 0 THEN [tab |-> [tab EXCEPT ![s.empty] = p], rc |-> "0"]
    ELSE IF oom THEN [tab |-> tab, rc |-> "ENOMEM"]
    ELSE [tab |-> Append(tab, p), rc |-> "0"]

\* callback_shrink that keeps the size
callback_shrink_never(tab) == tab

\* callback_shrink(c, size): the table up to its last slot that is not empty
RECURSIVE callback_shrink(_)
callback_shrink(tab) ==
    IF Len(tab) = 0 \/ tab[Len(tab)].cb # NullCb THEN tab
    ELSE callback_shrink(SubSeq(tab, 1, Len(tab) - 1))

\* callback_del(c, size, cb): the first slot that holds the pair of p loses the
\* bits of p.mask and is cleared when none is left
callback_del(tab, p) ==
    LET m == {i \in DOMAIN tab : tab[i].cb = p.cb /\ tab[i].user = p.user} IN
    IF m = {} THEN [tab |-> tab, rc |-> "ENOENT"]
    ELSE LET i == CHOOSE i \in m : \A j \in m : i <= j
             mask == tab[i].mask \ p.mask
         IN  IF mask # {} THEN [tab |-> [tab EXCEPT ![i].mask = mask], rc |-> "0"]
             ELSE [tab |-> callback_shrink([tab EXCEPT ![i] = EmptySlot]), rc |-> "0"]

\* the two tables of a channel and the result of a call on them
Tabs(data, other, rc) == [data |-> data, other |-> other, rc |-> rc]

\* tll_channel_callback_add(c, cb, user, mask) on the tables t of c; oom[1] and
\* oom[2] say that the realloc of the DATA table and of the other table fails
tll_channel_callback_add(t, c, f, u, mask, oom) ==
    IF c = NullChan \/ f = NullCb THEN Tabs(t.data, t.other, "EINVAL")
    ELSE IF TLL_MESSAGE_MASK_DATA \subseteq mask
    THEN LET rest == mask \ TLL_MESSAGE_MASK_DATA
             a == callback_add(t.data, Pair(f, u, TLL_MESSAGE_MASK_DATA), oom[1])
         IN  IF a.rc # "0" THEN Tabs(t.data, t.other, "ENOMEM")
             ELSE IF rest = {} THEN Tabs(a.tab, t.other, "0")
             ELSE LET b == callback_add(t.other, Pair(f, u, rest), oom[2])
                  IN  Tabs(a.tab, b.tab, b.rc)
    ELSE LET b == callback_add(t.other, Pair(f, u, mask), oom[2])
         IN  Tabs(t.data, b.tab, b.rc)

\* tll_channel_callback_del(c, cb, user, mask) on the tables t of c: the result
\* of callback_del on the DATA table is dropped
tll_channel_callback_del(t, c, f, u, mask) ==
    IF c = NullChan \/ f = NullCb THEN Tabs(t.data, t.other, "EINVAL")
    ELSE IF TLL_MESSAGE_MASK_DATA \subseteq mask
    THEN LET rest == mask \ TLL_MESSAGE_MASK_DATA
             a == callback_del(t.data, Pair(f, u, TLL_MESSAGE_MASK_DATA))
         IN  IF rest = {} THEN Tabs(a.tab, t.other, "0")
             ELSE LET b == callback_del(t.other, Pair(f, u, rest))
                  IN  Tabs(a.tab, b.tab, b.rc)
    ELSE LET b == callback_del(t.other, Pair(f, u, mask))
         IN  Tabs(t.data, b.tab, b.rc)

\* the (cb, user) pairs that have a slot in a table
LivePairs(tab) == {<<tab[i].cb, tab[i].user>> : i \in {j \in DOMAIN tab : tab[j].cb # NullCb}}

\* the order in which the pairs of the DATA table got their slot, after a call
\* that left the table as data
Ordered(order, data) ==
    LET kept == SelectSeq(order, LAMBDA q : q \in LivePairs(data))
        new == LivePairs(data) \ Range(order)
    IN  IF new = {} THEN kept ELSE Append(kept, CHOOSE q \in new : TRUE)

\* the arguments of a callback call
CbArg(f, u, mask) == [cb |-> f, user |-> u, mask |-> mask]

\* the last call on the callback tables: before is the tables when it was
\* made, undo says that it is a tll_channel_callback_del with the arguments of
\* the tll_channel_callback_add made right before it, which had found no slot
\* that held the pair
CbLast(op, c, arg, rc, before, undo) ==
    [op |-> op, c |-> c, arg |-> arg, rc |-> rc, before |-> before, undo |-> undo]

ChannelCallbackAdd(c, f, u, mask, oom) ==
    LET t == tll_channel_callback_add(Tabs(data_cb, cb, "0"), c, f, u, mask, oom) IN
    /\ data_cb' = t.data
    /\ cb' = t.other
    /\ data_order' = Ordered(data_order, t.data)
    /\ last' = CbLast("add", c, CbArg(f, u, mask), t.rc, Tabs(data_cb, cb, "0"), FALSE)

ChannelCallbackDel(c, f, u, mask) ==
    LET t == tll_channel_callback_del(Tabs(data_cb, cb, "0"), c, f, u, mask)
        undo == /\ last.op = "add"
                /\ last.c = c
                /\ last.arg = CbArg(f, u, mask)
                /\ <<f, u>> \notin LivePairs(last.before.data) \cup LivePairs(last.before.other)
    IN  /\ data_cb' = t.data
        /\ cb' = t.other
        /\ data_order' = Ordered(data_order, t.data)
        /\ last' = CbLast("del", c, CbArg(f, u, mask), t.rc, Tabs(data_cb, cb, "0"), undo)

\* the callbacks of the model: two functions with two user pointers
CbA == <<1, 1>>

CbB == <<1, 2>>

CbC == <<2, 1>>

\* the calls of the model, for tll_channel_callback_add and _del alike: the
\* first pair with every kind of mask, the second with DATA and with DATA and
\* STATE, the third with DATA, a call without channel and one without function
CbCalls ==
    {<<1, CbA, mask>> : mask \in { {}, TLL_MESSAGE_MASK_DATA,
                                   TLL_MESSAGE_MASK_DATA \cup TLL_MESSAGE_MASK_STATE,
                                   TLL_MESSAGE_MASK_STATE \cup TLL_MESSAGE_MASK_CHANNEL }}
    \cup {<<1, CbB, mask>> : mask \in { TLL_MESSAGE_MASK_DATA,
                                        TLL_MESSAGE_MASK_DATA \cup TLL_MESSAGE_MASK_STATE }}
    \cup { <<1, CbC, TLL_MESSAGE_MASK_DATA>>,
           <<NullChan, CbA, TLL_MESSAGE_MASK_DATA>>,
           <<1, <<NullCb, 1>>, TLL_MESSAGE_MASK_DATA>> }

\* realloc of the DATA table, of the other table, or of none fails
OomInputs == {<<FALSE, FALSE>>, <<TRUE, FALSE>>, <<FALSE, TRUE>>}

InitCb ==
    /\ IdleReg
    /\ IdleCtx
    /\ IdleThr
    /\ IdleLoop
    /\ tree = << >> /\ state = << >> /\ dcaps = << >> /\ pinned = {}
    /\ data_cb = << >>
    /\ cb = << >>
    /\ data_order = << >>
    /\ last = CbLast("init", 1, CbArg(NullCb, NullUser, {}), "0", Tabs(<< >>, << >>, "0"), FALSE)

NextCb ==
    \/ \E i \in CbCalls, oom \in OomInputs :
          /\ ChannelCallbackAdd(i[1], i[2][1], i[2][2], i[3], oom)
          /\ UNCHANGED <<regVars, ctxVars, loopVars, thrVars, tree, state, dcaps, pinned>>
    \/ \E i \in CbCalls :
          /\ ChannelCallbackDel(i[1], i[2][1], i[2][2], i[3])
          /\ UNCHANGED <<regVars, ctxVars, loopVars, thrVars, tree, state, dcaps, pinned>>

SpecCb == InitCb /\ [][NextCb]_vars

----------------------------------------------------------------------------
(* The processor loop: src/tll/processor/loop.h *)

TLL_DCAPS_POLLMASK == Bits(3)

\* the null pointer in a List
NullPtr == 0

\* the fd of a channel that has none
NoFd == 0 - 1

\* List<T>::add(v) on list[0 .. size): the first null slot, else the end
List_add(l, v) ==
    LET e == {i \in DOMAIN l : l[i] = NullPtr} IN
    IF e # {} THEN [l EXCEPT ![CHOOSE i \in e : \A j \in e : i <= j] = v]
    ELSE Append(l, v)

\* the second loop of List<T>::del: size steps back over the null slots
RECURSIVE List_trim(_)
List_trim(l) ==
    IF Len(l) = 0 \/ l[Len(l)] # NullPtr THEN l ELSE List_trim(SubSeq(l, 1, Len(l) - 1))

\* List<T>::del(v): the first slot that holds v is nulled and size steps back
List_del(l, v) ==
    LET m == {i \in DOMAIN l : l[i] = v} IN
    List_trim(IF m = {} THEN l ELSE [l EXCEPT ![CHOOSE i \in m : \A j \in m : i <= j] = NullPtr])

\* the state of a Loop: list, list_p and list_pending, the interest list of
\* its epoll descriptor (fd -> events and data.ptr), the events of efd there,
\* and the callback tables of the channels, where the loop subscribes
LoopState(l, lp, lpend, ep, ev, sb) ==
    [list |-> l, list_p |-> lp, list_pending |-> lpend, epoll |-> ep, efd |-> ev, subs |-> sb]

\* epoll_ctl(fd, EPOLL_CTL_ADD, f, ev): fails when f is registered
epoll_add(ep, f, ev) ==
    IF f \in DOMAIN ep THEN ep ELSE [x \in DOMAIN ep \cup {f} |-> IF x = f THEN ev ELSE ep[x]]

\* epoll_ctl(fd, EPOLL_CTL_MOD, f, ev): fails when f is not registered
epoll_mod(ep, f, ev) == IF f \in DOMAIN ep THEN [ep EXCEPT ![f] = ev] ELSE ep

\* epoll_ctl(fd, EPOLL_CTL_DEL, f, ev): fails when f is not registered
epoll_del(ep, f) == [x \in DOMAIN ep \ {f} |-> ep[x]]

\* epoll_event of a channel
Event(events, c) == [events |-> events, ptr |-> c]

\* Loop::pending_add(c)
pending_add(L, c) ==
    LET empty == Len(L.list_pending) = 0
        L1 == [L EXCEPT !.list_pending = List_add(@, c)]
    IN  IF ~empty THEN L1 ELSE [L1 EXCEPT !.efd = {"EPOLLIN"}]

\* Loop::pending_del that clears the events of efd whatever is left
pending_del_always(L, c) == [L EXCEPT !.list_pending = List_del(@, c), !.efd = {}]

\* Loop::pending_del(c)
pending_del(L, c) ==
    LET L1 == [L EXCEPT !.list_pending = List_del(@, c)]
    IN  IF Len(L1.list_pending) # 0 THEN L1 ELSE [L1 EXCEPT !.efd = {}]

\* Loop::update_poll(c, caps, add)
update_poll(L, c, caps, add) ==
    LET events == IF caps \cap TLL_DCAPS_SUSPEND # {} THEN {}
                  ELSE (IF TLL_DCAPS_POLLIN \subseteq caps THEN {"EPOLLIN"} ELSE {})
                       \cup (IF TLL_DCAPS_POLLOUT \subseteq caps THEN {"EPOLLOUT"} ELSE {})
    IN  [L EXCEPT !.epoll = IF add THEN epoll_add(@, fd[c], Event(events, c))
                            ELSE epoll_mod(@, fd[c], Event(events, c))]

\* Loop::poll_add(c)
poll_add(L, d, c) == IF fd[c] = NoFd THEN L ELSE update_poll(L, c, d[c], TRUE)

\* Loop::poll_del(c)
poll_del(L, c) == IF fd[c] = NoFd THEN L ELSE [L EXCEPT !.epoll = epoll_del(@, fd[c])]

\* the loop as the data.ptr of the event of efd
ThisLoop == 100

\* the callback of the loop and its user pointer, the loop
LoopCb == 1

LoopUser == 1

\* Loop::add(c), d the dcaps of the channels
Loop_add(L, d, c) ==
    LET mask == TLL_MESSAGE_MASK_CHANNEL \cup TLL_MESSAGE_MASK_STATE
        t == tll_channel_callback_add(Tabs(<< >>, L.subs[c], "0"), c, LoopCb, LoopUser, mask,
                                      <<FALSE, FALSE>>)
        L1 == [L EXCEPT !.subs[c] = t.other, !.list = Append(@, c)]
        L2 == IF TLL_DCAPS_PROCESS \subseteq d[c] THEN [L1 EXCEPT !.list_p = List_add(@, c)] ELSE L1
        L3 == IF TLL_DCAPS_PENDING \subseteq d[c] THEN pending_add(L2, c) ELSE L2
    IN  poll_add(L3, d, c)

\* the first loop of Loop::del: the first occurrence of c leaves list
list_erase(l, c) ==
    LET m == {i \in DOMAIN l : l[i] = c} IN
    IF m = {} THEN l
    ELSE LET i == CHOOSE i \in m : \A j \in m : i <= j
         IN  SubSeq(l, 1, i - 1) \o SubSeq(l, i + 1, Len(l))

\* Loop::del(c)
Loop_del(L, c) ==
    pending_del([L EXCEPT !.list = list_erase(@, c), !.list_p = List_del(@, c)], c)

\* Loop::update(c, caps, old)
Loop_update(L, c, caps, old) ==
    IF fd[c] = NoFd THEN L
    ELSE LET delta == (caps \ old) \cup (old \ caps)
             L1 == IF delta \cap (TLL_DCAPS_POLLMASK \cup TLL_DCAPS_SUSPEND) # {}
                   THEN update_poll(L, c, caps, FALSE) ELSE L
             L2 == IF TLL_DCAPS_PROCESS \subseteq delta
                   THEN [L1 EXCEPT !.list_p = IF TLL_DCAPS_PROCESS \subseteq caps
                                               THEN List_add(@, c) ELSE List_del(@, c)]
                   ELSE L1
         IN  IF TLL_DCAPS_PENDING \subseteq delta
             THEN (IF TLL_DCAPS_PENDING \subseteq caps THEN pending_add(L2, c)
                   ELSE pending_del(L2, c))
             ELSE L2

\* tll_msg_t: data is the dcaps before the change of a CHANNEL UPDATE, the
\* channel of a CHANNEL ADD or DELETE
Msg(from, type, msgid, data) == [from |-> from, type |-> type, msgid |-> msgid, data |-> data]

\* Loop::callback(c, msg), d the dcaps of the channels
Loop_callback(L, d, c, msg) ==
    IF msg.type = "STATE"
    THEN (IF msg.msgid = "Active" THEN poll_add(L, d, c)
          ELSE IF msg.msgid = "Closing" THEN poll_del(L, c)
          ELSE IF msg.msgid = "Destroy" THEN Loop_del(L, c)
          ELSE L)
    ELSE IF msg.type # "CHANNEL" THEN L
    ELSE IF msg.msgid = "ADD" THEN Loop_add(L, d, msg.data)
    ELSE IF msg.msgid = "DELETE" THEN Loop_del(L, msg.data)
    ELSE IF msg.msgid = "UPDATE" THEN Loop_update(L, c, d[c], msg.data)
    ELSE L

\* the bit of the callback mask that selects the messages of a type
MaskOf(type) ==
    IF type = "DATA" THEN TLL_MESSAGE_MASK_DATA
    ELSE IF type = "CONTROL" THEN TLL_MESSAGE_MASK_CONTROL
    ELSE IF type = "STATE" THEN TLL_MESSAGE_MASK_STATE
    ELSE TLL_MESSAGE_MASK_CHANNEL

\* the callbacks of channel msg.from are called with msg: the loop is, when a
\* slot of the table of the channel holds it with the bit of the type
Subscribed(L, msg) ==
    \E i \in DOMAIN L.subs[msg.from] :
        /\ L.subs[msg.from][i].cb = LoopCb
        /\ MaskOf(msg.type) \subseteq L.subs[msg.from][i].mask

Deliver(L, d, msg) == IF Subscribed(L, msg) THEN Loop_callback(L, d, msg.from, msg) ELSE L

\* the loop as it is
CurLoop == LoopState(list, list_p, list_pending, epoll, efd, subs)

SetLoop(L) ==
    /\ list' = L.list
    /\ list_p' = L.list_p
    /\ list_pending' = L.list_pending
    /\ epoll' = L.epoll
    /\ efd' = L.efd
    /\ subs' = L.subs

\* the last call on the loop or on a channel of it: c is the channel of the
\* call (the channel poll returns), arg tells a call of the owner of the loop
\* from a message of a channel, rc is "none" when the loop was not called
\* with the message, before says whether list_pending held c when it was made
LoopLast(op, c, arg, rc) ==
    [op |-> op, c |-> c, arg |-> arg, rc |-> rc, before |-> c \in Range(list_pending)]

\* whether the callback of the loop is called with msg
Called(msg) == IF Subscribed(CurLoop, msg) THEN "0" ELSE "none"

\* the channels that are not destroyed
Alive == {c \in DOMAIN state : state[c] # "Destroy"}

\* most entries of Loop::list
MaxList == 1

\* Loop::add(c), called by the owner of the loop
LoopAdd(c) ==
    /\ Len(list) < MaxList
    /\ SetLoop(Loop_add(CurLoop, dcaps, c))
    /\ sent' = << >>
    /\ last' = LoopLast("add", c, "call", "0")
    /\ UNCHANGED <<fd, tree, state, dcaps, pinned>>

\* Loop::del(c), called by the owner of the loop
LoopDel(c) ==
    /\ SetLoop(Loop_del(CurLoop, c))
    /\ sent' = << >>
    /\ last' = LoopLast("del", c, "call", "0")
    /\ UNCHANGED <<fd, tree, state, dcaps, pinned>>

\* the dcaps setter of the channel base: the bits of mask change on c and the
\* callbacks of c get CHANNEL UPDATE with the dcaps c had
DcapsUpdate(c, mask) ==
    LET old == dcaps[c]
        new == (old \ mask) \cup (mask \ old)
        msg == Msg(c, "CHANNEL", "UPDATE", old)
    IN  /\ dcaps' = [dcaps EXCEPT ![c] = new]
        /\ SetLoop(Deliver(CurLoop, dcaps', msg))
        /\ sent' = <<msg>>
        /\ last' = LoopLast("update", c, "msg", Called(msg))
        /\ UNCHANGED <<fd, tree, state, pinned>>

\* the state setter of the channel base: c enters s and its callbacks get
\* STATE s
StateUpdate(c, s) ==
    LET msg == Msg(c, "STATE", s, NullPtr) IN
    /\ <<state[c], s>> \in Edges
    /\ state' = [state EXCEPT ![c] = s]
    /\ SetLoop(Deliver(CurLoop, dcaps, msg))
    /\ sent' = <<msg>>
    /\ last' = LoopLast(IF s = "Destroy" THEN "del" ELSE "state", c, "msg", Called(msg))
    /\ UNCHANGED <<fd, tree, dcaps, pinned>>

\* the child list of the channel base: k joins the children of p and the
\* callbacks of p get CHANNEL ADD with k
ChildAdd(p, k) ==
    LET msg == Msg(p, "CHANNEL", "ADD", k) IN
    /\ p # k
    /\ \A x \in DOMAIN tree : k \notin Range(tree[x])
    /\ tree[k] = << >>
    /\ Len(list) < MaxList
    /\ tree' = [tree EXCEPT ![p] = Append(@, k)]
    /\ SetLoop(Deliver(CurLoop, dcaps, msg))
    /\ sent' = <<msg>>
    /\ last' = LoopLast("add", k, "msg", Called(msg))
    /\ UNCHANGED <<fd, state, dcaps, pinned>>

\* the child list of the channel base: k leaves the children of p and the
\* callbacks of p get CHANNEL DELETE with k
ChildDel(p, k) ==
    LET msg == Msg(p, "CHANNEL", "DELETE", k) IN
    /\ k \in Range(tree[p])
    /\ tree' = [tree EXCEPT ![p] = SelectSeq(@, LAMBDA x : x # k)]
    /\ SetLoop(Deliver(CurLoop, dcaps, msg))
    /\ sent' = <<msg>>
    /\ last' = LoopLast("del", k, "msg", Called(msg))
    /\ UNCHANGED <<fd, state, dcaps, pinned>>

\* tll_channel_suspend(c) and tll_channel_resume(c) on a channel of the loop
LoopSuspend(c) ==
    /\ ChannelSuspend(c, TRUE)
    /\ sent' = << >>
    /\ UNCHANGED <<fd, list, list_p, list_pending, epoll, efd, subs>>

LoopResume(c) ==
    /\ ChannelResume(c, TRUE)
    /\ sent' = << >>
    /\ UNCHANGED <<fd, list, list_p, list_pending, epoll, efd, subs>>

\* what epoll_wait can report: efd, whose counter is 1 and never read, when it
\* is registered for EPOLLIN, and the channels of the fds in ready that are
\* registered for EPOLLIN
Reportable(ready) ==
    (IF "EPOLLIN" \in efd THEN {ThisLoop} ELSE {})
    \cup {epoll[f].ptr : f \in {x \in DOMAIN epoll \cap ready : "EPOLLIN" \in epoll[x].events}}

\* Loop::poll(timeout) with a positive timeout, ready the fds that are
\* readable: without an event it waits for the timeout and returns null, with
\* the event of efd it processes list_pending and returns null, else it
\* returns the channel of the event
LoopPoll(ready) ==
    /\ \/ /\ Reportable(ready) = {}
          /\ last' = LoopLast("poll", NullPtr, "call", "timeout")
       \/ \E e \in Reportable(ready) :
             last' = LoopLast("poll", IF e = ThisLoop THEN NullPtr ELSE e, "call",
                              IF e = ThisLoop THEN "pending" ELSE "channel")
    /\ sent' = << >>
    /\ UNCHANGED <<fd, list, list_p, list_pending, epoll, efd, subs, tree, state, dcaps, pinned>>

\* the channels of the model: the first has a fd, the second has none and is
\* the child of the first
LoopChans == {1, 2}

LoopFds == <<5, NoFd>>

\* the dcaps the channels start with, and the changes of the model: the
\* channel with the fd changes PollIn and Pending, the other Process and
\* Pending
LoopDcaps == <<TLL_DCAPS_POLLIN \cup TLL_DCAPS_PROCESS, {}>>

LoopUpdates ==
    { <<1, TLL_DCAPS_POLLIN>>, <<1, TLL_DCAPS_PENDING>>,
      <<2, TLL_DCAPS_PROCESS>>, <<2, TLL_DCAPS_PENDING>> }

\* the state changes of the model: the channel with the fd is opened, closed
\* and destroyed, the other is destroyed
LoopStates ==
    { <<1, "Opening">>, <<1, "Active">>, <<1, "Closing">>, <<1, "Closed">>, <<1, "Destroy">>,
      <<2, "Destroy">> }

InitLoop ==
    /\ IdleReg
    /\ IdleCtx
    /\ IdleThr
    /\ IdleCb
    /\ fd = LoopFds
    /\ list = << >>
    /\ list_p = << >>
    /\ list_pending = << >>
    /\ epoll = << >>
    /\ efd = {}
    /\ subs = [c \in LoopChans |-> << >>]
    /\ sent = << >>
    /\ tree = Chain(2)
    /\ state = [c \in LoopChans |-> "Closed"]
    /\ dcaps = LoopDcaps
    /\ pinned = {}
    /\ last = [op |-> "init", c |-> NullPtr, arg |-> "call", rc |-> "0", before |-> FALSE]

NextLoop ==
    \/ \E c \in Alive : LoopAdd(c) /\ UNCHANGED <<regVars, ctxVars, cbVars, thrVars>>
    \/ \E c \in Alive : LoopDel(c) /\ UNCHANGED <<regVars, ctxVars, cbVars, thrVars>>
    \/ \E u \in LoopUpdates :
          u[1] \in Alive /\ DcapsUpdate(u[1], u[2]) /\ UNCHANGED <<regVars, ctxVars, cbVars, thrVars>>
    \/ \E i \in LoopStates :
          i[1] \in Alive /\ StateUpdate(i[1], i[2]) /\ UNCHANGED <<regVars, ctxVars, cbVars, thrVars>>
    \/ \E p \in Alive, k \in Alive : ChildAdd(p, k) /\ UNCHANGED <<regVars, ctxVars, cbVars, thrVars>>
    \/ \E p \in Alive, k \in Alive : ChildDel(p, k) /\ UNCHANGED <<regVars, ctxVars, cbVars, thrVars>>
    \/ \E ready \in SUBSET {LoopFds[1]} : LoopPoll(ready) /\ UNCHANGED <<regVars, ctxVars, cbVars, thrVars>>

\* the loop with channels that are suspended and resumed; list_p and
\* list_pending grow with every change of Process and Pending that follows a
\* resume, so the changes stop when they are longer than MaxList
NextLoopSusp ==
    \/ \E c \in LoopChans : LoopAdd(c) /\ UNCHANGED <<regVars, ctxVars, cbVars, thrVars>>
    \/ \E u \in LoopUpdates :
          /\ Len(list_p) <= MaxList
          /\ Len(list_pending) <= MaxList
          /\ DcapsUpdate(u[1], u[2])
          /\ UNCHANGED <<regVars, ctxVars, cbVars, thrVars>>
    \/ \E c \in LoopChans : LoopSuspend(c) /\ UNCHANGED <<regVars, ctxVars, cbVars, thrVars>>
    \/ \E c \in LoopChans : LoopResume(c) /\ UNCHANGED <<regVars, ctxVars, cbVars, thrVars>>

SpecLoop == InitLoop /\ [][NextLoop]_vars

SpecLoopSusp == InitLoop /\ [][NextLoopSusp]_vars

\* the value of an error code
Errno(rc) == IF rc = "0" THEN 0 ELSE IF rc = "EAGAIN" THEN 11 ELSE 22

\* a ^ b on the bits of two integers
Xor(a, b) == (a \ b) \cup (b \ a)

\* the two loops of Loop::process over the slots of list_p and then of
\* list_pending, from slot i on: rets[i] is what impl->process of the channel of
\* slot i returns, acc.r the bits of r and acc.calls the calls made so far
RECURSIVE process_slots(_, _, _, _, _)
process_slots(slots, d, rets, i, acc) ==
    IF i > Len(slots) THEN acc
    ELSE IF slots[i] = NullPtr THEN process_slots(slots, d, rets, i + 1, acc)
    ELSE LET p == tll_channel_process(FALSE, TRUE, TRUE, d[slots[i]], rets[i])
         IN  process_slots(slots, d, rets, i + 1,
                           [r |-> acc.r \cup Xor(Bits(Errno(p.rc)), Bits(Errno("EAGAIN"))),
                            calls |-> Append(acc.calls, <<slots[i], p.rc>>)])

\* Loop::process that ORs the results as they are
RECURSIVE process_slots_no_xor(_, _, _, _, _)
process_slots_no_xor(slots, d, rets, i, acc) ==
    IF i > Len(slots) THEN acc
    ELSE IF slots[i] = NullPtr THEN process_slots_no_xor(slots, d, rets, i + 1, acc)
    ELSE LET p == tll_channel_process(FALSE, TRUE, TRUE, d[slots[i]], rets[i])
         IN  process_slots_no_xor(slots, d, rets, i + 1,
                                  [r |-> acc.r \cup Bits(Errno(p.rc)),
                                   calls |-> Append(acc.calls, <<slots[i], p.rc>>)])

Loop_process_no_xor(lp, lpend, d, rets) ==
    LET a == process_slots_no_xor(lp \o lpend, d, rets, 1, [r |-> {}, calls |-> << >>])
    IN  [rc |-> IF a.r = {} THEN "EAGAIN" ELSE "0", calls |-> a.calls]

\* Loop::process()
Loop_process(lp, lpend, d, rets) ==
    LET a == process_slots(lp \o lpend, d, rets, 1, [r |-> {}, calls |-> << >>])
    IN  [rc |-> IF a.r = {} THEN "EAGAIN" ELSE "0", calls |-> a.calls]

\* Loop::process(), called by the owner of the loop: arg is the calls it made,
\* each with the channel and what its process returned
LoopProcess(rets) ==
    LET p == Loop_process(list_p, list_pending, dcaps, rets) IN
    /\ last' = [op |-> "process", c |-> NullPtr, arg |-> p.calls, rc |-> p.rc, before |-> FALSE]
    /\ sent' = << >>
    /\ UNCHANGED <<fd, list, list_p, list_pending, epoll, efd, subs, tree, state, dcaps, pinned>>

\* what the process of each slot returns: 0 or EAGAIN, the same for every
\* slot but at most one, which has nothing to do or fails
ProcessOutcomes(n) ==
    {[i \in 1..n |-> IF i = k THEN r ELSE base] :
        base \in {"0", "EAGAIN"}, r \in {"EAGAIN", "EINVAL"}, k \in 0..n}

\* the loop whose owner adds and deletes channels and calls process
NextProc ==
    \/ \E c \in LoopChans : LoopAdd(c) /\ UNCHANGED <<regVars, ctxVars, cbVars, thrVars>>
    \/ \E c \in LoopChans : LoopDel(c) /\ UNCHANGED <<regVars, ctxVars, cbVars, thrVars>>
    \/ \E u \in LoopUpdates : DcapsUpdate(u[1], u[2]) /\ UNCHANGED <<regVars, ctxVars, cbVars, thrVars>>
    \/ \E rets \in ProcessOutcomes(Len(list_p) + Len(list_pending)) :
          LoopProcess(rets) /\ UNCHANGED <<regVars, ctxVars, cbVars, thrVars>>

SpecProc == InitLoop /\ [][NextProc]_vars

\* the loop over list_pending of Loop::poll, from slot i on: process is called
\* on every slot of [begin, end), empty or not. The call on an empty slot is
\* a call through a null pointer: go tells whether the loop goes on after it
RECURSIVE poll_slots(_, _, _, _)
poll_slots(slots, i, go, calls) ==
    IF i > Len(slots) THEN calls
    ELSE IF slots[i] = NullPtr /\ ~go THEN Append(calls, <<NullPtr, "undefined">>)
    ELSE poll_slots(slots, i + 1, go,
                    Append(calls, <<slots[i], IF slots[i] = NullPtr THEN "undefined" ELSE "0">>))

\* Loop::poll(timeout) when epoll_wait reports the event of efd: arg is the
\* calls of process it made, rc "null" the null pointer it returns
LoopPollPending(go) ==
    LET calls == poll_slots(list_pending, 1, go, << >>) IN
    /\ "EPOLLIN" \in efd
    /\ last' = [op |-> "poll", c |-> NullPtr, arg |-> calls,
                rc |-> IF \E i \in DOMAIN calls : calls[i][1] = NullPtr THEN "undefined" ELSE "null",
                before |-> FALSE]
    /\ sent' = << >>
    /\ UNCHANGED <<fd, list, list_p, list_pending, epoll, efd, subs, tree, state, dcaps, pinned>>

\* Loop::add(c), called by the owner of the loop for a channel that is not in
\* list
LoopAddOnce(c) ==
    /\ c \notin Range(list)
    /\ SetLoop(Loop_add(CurLoop, dcaps, c))
    /\ sent' = << >>
    /\ last' = LoopLast("add", c, "call", "0")
    /\ UNCHANGED <<fd, tree, state, dcaps, pinned>>

\* the loop whose owner adds and deletes channels and calls poll and process
NextPoll ==
    \/ \E c \in LoopChans : LoopAddOnce(c) /\ UNCHANGED <<regVars, ctxVars, cbVars, thrVars>>
    \/ \E c \in LoopChans : LoopDel(c) /\ UNCHANGED <<regVars, ctxVars, cbVars, thrVars>>
    \/ \E u \in LoopUpdates : DcapsUpdate(u[1], u[2]) /\ UNCHANGED <<regVars, ctxVars, cbVars, thrVars>>
    \/ \E go \in BOOLEAN : LoopPollPending(go) /\ UNCHANGED <<regVars, ctxVars, cbVars, thrVars>>
    \/ \E rets \in {[i \in 1..(Len(list_p) + Len(list_pending)) |-> "0"]} :
          LoopProcess(rets) /\ UNCHANGED <<regVars, ctxVars, cbVars, thrVars>>

SpecPoll == InitLoop /\ [][NextPoll]_vars

----------------------------------------------------------------------------
(* The default context: context_init, context, tll_channel_context_ref,     *)
(* tll_channel_context_free and tll_channel_context_default                 *)

\* the threads of the process
Threads == {1, 2}

\* the null context pointer, which designates the default context
NullCtx == 0

\* no thread holds the mutex
NoThread == 0

\* highest reference count the callers drive a context to
MaxRef == 2

IdleLocal == [op |-> "none", arg |-> NullCtx]

\* a call of one of the three functions starts: arg is NULL or a pointer that
\* tll_channel_context_default has returned; context(ctx) runs context_init
\* only for NULL
CtxCall(t, op, arg) ==
    /\ pc[t] = "idle"
    /\ ~hist.uaf
    /\ arg \in {NullCtx} \cup hist.returned
    /\ loc' = [loc EXCEPT ![t] = [op |-> op, arg |-> arg]]
    /\ pc' = [pc EXCEPT ![t] = IF arg = NullCtx THEN "check1" ELSE "get"]
    /\ UNCHANGED <<shared, hist>>

\* context_init: if (!_context), read without the lock
Check1(t) ==
    /\ pc[t] = "check1"
    /\ pc' = [pc EXCEPT ![t] = IF shared._context = NullCtx THEN "lock" ELSE "get"]
    /\ UNCHANGED <<loc, shared, hist>>

\* context_init: std::unique_lock lock(_context_lock)
Lock(t) ==
    /\ pc[t] = "lock"
    /\ shared._context_lock = NoThread
    /\ shared' = [shared EXCEPT !._context_lock = t]
    /\ pc' = [pc EXCEPT ![t] = "check2"]
    /\ UNCHANGED <<loc, hist>>

\* context_init under the lock: if (_context) return; else the context is
\* created and the static refptr_t holds its one reference; the lock is
\* released on both ways out
Check2(t) ==
    LET id == shared.created + 1 IN
    /\ pc[t] = "check2"
    /\ shared' = IF shared._context # NullCtx
                 THEN [shared EXCEPT !._context_lock = NoThread]
                 ELSE [shared EXCEPT !._context = id, !.created = id,
                                     !.refcnt = @ @@ (id :> 1), !._context_lock = NoThread]
    /\ pc' = [pc EXCEPT ![t] = "get"]
    /\ UNCHANGED <<loc, hist>>

\* refbase_t::ref(): one more reference
refbase_ref(cnt, p) == [cnt EXCEPT ![p] = @ + 1]

\* refbase_t::unref(): one reference less; the object is deleted at zero
refbase_unref(cnt, p) == [cnt EXCEPT ![p] = @ - 1]

\* return _context.get() and what the caller of context() does with it:
\* nothing (default), ->ref() or ->unref(), which deletes the context when the
\* count reaches zero; a call on a deleted context is a use after free
ContextGet(t) ==
    LET p == IF loc[t].arg # NullCtx THEN loc[t].arg ELSE shared._context
        op == loc[t].op
        dead == p \in hist.destroyed
    IN  /\ pc[t] = "get"
        /\ op = "ref" => (dead \/ shared.refcnt[p] < MaxRef)
        /\ pc' = [pc EXCEPT ![t] = "idle"]
        /\ loc' = [loc EXCEPT ![t] = IdleLocal]
        /\ IF op = "default"
           THEN /\ hist' = [hist EXCEPT !.returned = @ \cup {p}]
                /\ UNCHANGED shared
           ELSE IF dead
           THEN /\ hist' = [hist EXCEPT !.uaf = TRUE]
                /\ UNCHANGED shared
           ELSE IF op = "ref"
           THEN /\ shared' = [shared EXCEPT !.refcnt = refbase_ref(@, p)]
                /\ UNCHANGED hist
           ELSE /\ shared' = [shared EXCEPT !.refcnt = refbase_unref(@, p)]
                /\ hist' = IF refbase_unref(shared.refcnt, p)[p] = 0
                           THEN [hist EXCEPT !.destroyed = @ \cup {p}]
                           ELSE hist

CtxOps == {"default", "ref", "free"}

InitDefault ==
    /\ IdleReg
    /\ IdleCtx
    /\ IdleCb
    /\ IdleLoop
    /\ IdleChan
    /\ pc = [t \in Threads |-> "idle"]
    /\ loc = [t \in Threads |-> IdleLocal]
    /\ shared = [_context |-> NullCtx, _context_lock |-> NoThread, created |-> 0,
                 refcnt |-> << >>]
    /\ hist = [returned |-> {}, destroyed |-> {}, uaf |-> FALSE]

NextDefault ==
    \/ \E t \in Threads, op \in CtxOps, arg \in {NullCtx, 1, 2} :
          CtxCall(t, op, arg) /\ UNCHANGED <<regVars, ctxVars, chanVars, cbVars, loopVars>>
    \/ \E t \in Threads : Check1(t) /\ UNCHANGED <<regVars, ctxVars, chanVars, cbVars, loopVars>>
    \/ \E t \in Threads : Lock(t) /\ UNCHANGED <<regVars, ctxVars, chanVars, cbVars, loopVars>>
    \/ \E t \in Threads : Check2(t) /\ UNCHANGED <<regVars, ctxVars, chanVars, cbVars, loopVars>>
    \/ \E t \in Threads : ContextGet(t) /\ UNCHANGED <<regVars, ctxVars, chanVars, cbVars, loopVars>>

SpecDefault == InitDefault /\ [][NextDefault]_vars

----------------------------------------------------------------------------
(* The scheme cache: tll_channel_context_t::scheme_load                      *)

\* the null scheme pointer
NullScheme == 0

\* most schemes Scheme::load creates
MaxLoads == 3

SchemeUrls == {"yamls://a", "yamls://b"}

NoCall == [url |-> "", cache |-> FALSE, s |-> NullScheme]

\* scheme_load(url, cache) starts; the url is not a channel:// url
SchemeLoad(t, url, cache) ==
    /\ pc[t] = "idle"
    /\ loc' = [loc EXCEPT ![t] = [url |-> url, cache |-> cache, s |-> NullScheme]]
    /\ pc' = [pc EXCEPT ![t] = IF cache THEN "find" ELSE "load"]
    /\ UNCHANGED <<shared, hist>>

\* the call of thread t returns p
Return(t, p) ==
    /\ hist' = [hist EXCEPT !.ret[t] = [url |-> loc[t].url, cache |-> loc[t].cache, s |-> p]]
    /\ pc' = [pc EXCEPT ![t] = "idle"]
    /\ loc' = [loc EXCEPT ![t] = NoCall]

\* under the shared lock: scheme_cache.find(url), and tll_scheme_ref of the
\* entry when there is one
CacheFind(t) ==
    LET url == loc[t].url IN
    /\ pc[t] = "find"
    /\ IF url \in DOMAIN shared.scheme_cache
       THEN /\ UNCHANGED shared
            /\ Return(t, shared.scheme_cache[url])
       ELSE /\ pc' = [pc EXCEPT ![t] = "load"]
            /\ UNCHANGED <<loc, shared, hist>>

\* auto s = Scheme::load(url): a new scheme with one reference, or null; the
\* call without cache returns it, and so does the call with cache when it is
\* null
SchemeLoaded(t, ok) ==
    LET id == shared.loaded + 1 IN
    /\ pc[t] = "load"
    /\ IF ok
       THEN /\ shared.loaded < MaxLoads
            /\ shared' = [shared EXCEPT !.loaded = id]
            /\ IF loc[t].cache
               THEN /\ loc' = [loc EXCEPT ![t].s = id]
                    /\ pc' = [pc EXCEPT ![t] = "insert"]
                    /\ UNCHANGED hist
               ELSE Return(t, id)
       ELSE /\ UNCHANGED shared
            /\ Return(t, NullScheme)

\* under the unique lock: scheme_cache.insert({url, SchemePtr {s}}). When the
\* url is a key already, the SchemePtr that was not inserted drops the one
\* reference s has, and s is returned; else the cache owns s and
\* tll_scheme_ref(s) is returned
CacheInsert(t) ==
    LET url == loc[t].url
        s == loc[t].s
    IN  /\ pc[t] = "insert"
        /\ IF url \in DOMAIN shared.scheme_cache
           THEN /\ shared' = [shared EXCEPT !.released = @ \cup {s}]
                /\ Return(t, s)
           ELSE /\ shared' = [shared EXCEPT !.scheme_cache = @ @@ (url :> s)]
                /\ Return(t, s)

InitScheme ==
    /\ IdleReg
    /\ IdleCtx
    /\ IdleCb
    /\ IdleLoop
    /\ IdleChan
    /\ pc = [t \in Threads |-> "idle"]
    /\ loc = [t \in Threads |-> NoCall]
    /\ shared = [scheme_cache |-> << >>, loaded |-> 0, released |-> {}]
    /\ hist = [ret |-> [t \in Threads |-> NoCall]]

NextScheme ==
    \/ \E t \in Threads, u \in SchemeUrls, c \in BOOLEAN :
          SchemeLoad(t, u, c) /\ UNCHANGED <<regVars, ctxVars, chanVars, cbVars, loopVars>>
    \/ \E t \in Threads : CacheFind(t) /\ UNCHANGED <<regVars, ctxVars, chanVars, cbVars, loopVars>>
    \/ \E t \in Threads, ok \in BOOLEAN :
          SchemeLoaded(t, ok) /\ UNCHANGED <<regVars, ctxVars, chanVars, cbVars, loopVars>>
    \/ \E t \in Threads : CacheInsert(t) /\ UNCHANGED <<regVars, ctxVars, chanVars, cbVars, loopVars>>

SpecScheme == InitScheme /\ [][NextScheme]_vars

----------------------------------------------------------------------------
(* The ipc channels: ChIpc::_post of the client threads and                  *)
(* ChIpcServer::_process of the server thread                                *)

\* the threads that own a client channel, and the thread of the server
Clients == Threads

Server == 0

\* the null queue pointer that MarkerQueue::pop returns when it is empty
NullQueue == 0

\* most posts of one client
MaxPosts == 2

\* capacity of the marker queue (the size parameter of the server)
MarkerSize == 2

\* MarkerQueue::push(q): false (0) when stored, true when the queue is full
MarkerFull(markers) == Len(markers) >= MarkerSize

\* ChIpc::_post starts: OwnedMessage m(msg), the message is the n-th the
\* client has tried to post
PostCall(c) ==
    /\ pc[c] = "idle"
    /\ hist.posts[c] < MaxPosts
    /\ loc' = [loc EXCEPT ![c] = hist.posts[c] + 1]
    /\ hist' = [hist EXCEPT !.posts[c] = @ + 1]
    /\ pc' = [pc EXCEPT ![c] = "marker"]
    /\ UNCHANGED shared

\* if (_markers->push(_qout.get())) return EAGAIN;
PostMarker(c) ==
    /\ pc[c] = "marker"
    /\ IF MarkerFull(shared._markers)
       THEN /\ pc' = [pc EXCEPT ![c] = "idle"]
            /\ hist' = [hist EXCEPT !.rc[c] = "EAGAIN"]
            /\ UNCHANGED shared
       ELSE /\ shared' = [shared EXCEPT !._markers = Append(@, c)]
            /\ pc' = [pc EXCEPT ![c] = "push"]
            /\ hist' = [hist EXCEPT !.accepted[c] = Append(@, loc[c])]
    /\ UNCHANGED loc

\* _qout->push(std::move(m));
PostPush(c) ==
    /\ pc[c] = "push"
    /\ shared' = [shared EXCEPT !._qout[c] = Append(@, loc[c])]
    /\ pc' = [pc EXCEPT ![c] = "notify"]
    /\ UNCHANGED <<loc, hist>>

\* if (_qout->event->event_notify()) return _log.fail(EINVAL, ...); return 0;
\* ok: whether the event could be armed
PostNotify(c, ok) ==
    /\ pc[c] = "notify"
    /\ pc' = [pc EXCEPT ![c] = "idle"]
    /\ hist' = IF ok THEN [hist EXCEPT !.rc[c] = "0"]
                   ELSE [hist EXCEPT !.rc[c] = "EINVAL", !.failed[c] = @ \cup {loc[c]}]
    /\ UNCHANGED <<loc, shared>>

\* auto q = _markers->pop(); if (!q) return EAGAIN;
ServerMarker ==
    /\ pc[Server] = "idle"
    /\ IF shared._markers = << >>
       THEN UNCHANGED <<pc, loc, shared, hist>>
       ELSE /\ loc' = [loc EXCEPT ![Server] = Head(shared._markers)]
            /\ shared' = [shared EXCEPT !._markers = Tail(@)]
            /\ pc' = [pc EXCEPT ![Server] = "pop"]
            /\ hist' = [hist EXCEPT !.popped = @ + 1, !.spun = FALSE]

\* a server that gives up when the queue of the marker is empty
ServerPop_once ==
    LET q == loc[Server] IN
    /\ pc[Server] = "pop"
    /\ pc' = [pc EXCEPT ![Server] = "idle"]
    /\ loc' = [loc EXCEPT ![Server] = NullQueue]
    /\ IF shared._qout[q] = << >>
       THEN /\ hist' = [hist EXCEPT !.spun = TRUE]
            /\ UNCHANGED shared
       ELSE /\ shared' = [shared EXCEPT !._qout[q] = Tail(@)]
            /\ hist' = [hist EXCEPT !.delivered[q] = Append(@, Head(shared._qout[q]))]

\* auto msg = q->pop(); while (!msg) msg = q->pop(); _callback_data(*msg);
\* one pop of the queue: the loop goes on when it yields nothing
ServerPop ==
    LET q == loc[Server] IN
    /\ pc[Server] = "pop"
    /\ IF shared._qout[q] = << >>
       THEN /\ hist' = [hist EXCEPT !.spun = TRUE]
            /\ UNCHANGED <<pc, loc, shared>>
       ELSE /\ shared' = [shared EXCEPT !._qout[q] = Tail(@)]
            /\ hist' = [hist EXCEPT !.delivered[q] = Append(@, Head(shared._qout[q]))]
            /\ pc' = [pc EXCEPT ![Server] = "idle"]
            /\ loc' = [loc EXCEPT ![Server] = NullQueue]

ClientStep(c) == PostMarker(c) \/ PostPush(c) \/ \E ok \in BOOLEAN : PostNotify(c, ok)

ServerStep == ServerMarker \/ ServerPop

InitIpc ==
    /\ IdleReg
    /\ IdleCtx
    /\ IdleCb
    /\ IdleLoop
    /\ IdleChan
    /\ pc = [t \in Clients \cup {Server} |-> "idle"]
    /\ loc = [t \in Clients \cup {Server} |-> 0]
    /\ shared = [_markers |-> << >>, _qout |-> [c \in Clients |-> << >>]]
    /\ hist = [posts |-> [c \in Clients |-> 0],
               accepted |-> [c \in Clients |-> << >>],
               delivered |-> [c \in Clients |-> << >>],
               failed |-> [c \in Clients |-> {}],
               rc |-> [c \in Clients |-> "none"],
               popped |-> 0, spun |-> FALSE]

NextIpc ==
    \/ \E c \in Clients : PostCall(c) /\ UNCHANGED <<regVars, ctxVars, chanVars, cbVars, loopVars>>
    \/ \E c \in Clients : PostMarker(c) /\ UNCHANGED <<regVars, ctxVars, chanVars, cbVars, loopVars>>
    \/ \E c \in Clients : PostPush(c) /\ UNCHANGED <<regVars, ctxVars, chanVars, cbVars, loopVars>>
    \/ \E c \in Clients, ok \in BOOLEAN : PostNotify(c, ok) /\ UNCHANGED <<regVars, ctxVars, chanVars, cbVars, loopVars>>
    \/ ServerMarker /\ UNCHANGED <<regVars, ctxVars, chanVars, cbVars, loopVars>>
    \/ ServerPop /\ UNCHANGED <<regVars, ctxVars, chanVars, cbVars, loopVars>>

SpecIpc == InitIpc /\ [][NextIpc]_vars

\* every thread goes on running: a post that has started is finished and the
\* server is processed again and again
SpecIpcFair ==
    /\ InitIpc
    /\ [][NextIpc]_vars
    /\ WF_thrVars(ServerStep)
    /\ \A c \in Clients : WF_thrVars(ClientStep(c))

\* the server is processed again and again, whatever the client threads do
SpecIpcServer == InitIpc /\ [][NextIpc]_vars /\ WF_thrVars(ServerStep)

----------------------------------------------------------------------------
(* The tcp server: TcpServer::_cb_socket, _cb_state, _cleanup and _post      *)

\* most connections the listening socket hands over
MaxConns == 3

\* the descriptors accept returns
TcpFds == {3, 4}

\* the seq of the address a connection is bound with
TcpSeqs == {0, 1}

\* the addresses a message can carry: those of connections, a descriptor no
\* connection has, and the invalid descriptor -1
PostAddrs == [fd : TcpFds \cup {5, NoFd}, seq : TcpSeqs]

\* the connections that are not deleted
Live(conns) == {i \in DOMAIN conns : ~conns[i].deleted}

\* TcpServer::_cleanup(): erases the clients that are in Error or Closed
Cleanup(sh) ==
    IF ~sh._cleanup_flag THEN sh
    ELSE LET gone == {f \in DOMAIN sh._clients : sh.conns[sh._clients[f]].state = "Closed"} IN
         [sh EXCEPT !._cleanup_flag = FALSE,
                    !._clients = [f \in DOMAIN sh._clients \ gone |-> sh._clients[f]],
                    !.conns = [i \in DOMAIN sh.conns |->
                                 IF \E f \in gone : sh._clients[f] = i
                                 THEN [sh.conns[i] EXCEPT !.deleted = TRUE]
                                 ELSE sh.conns[i]]]

\* TcpServer::_cb_socket with a DATA message of the listening socket: the
\* descriptor f of a new connection; client->bind gives it its address
CbSocket(f, q) ==
    LET sh == Cleanup(shared)
        id == Len(sh.conns) + 1
        client == [addr |-> [fd |-> f, seq |-> q], state |-> "Active", deleted |-> FALSE]
    IN
    /\ Len(shared.conns) < MaxConns
    /\ \A i \in Live(shared.conns) :
          shared.conns[i].state = "Active" => shared.conns[i].addr.fd # f
    /\ shared' =
          IF f \in DOMAIN sh._clients
          THEN [sh EXCEPT !.conns = Append([sh.conns EXCEPT ![sh._clients[f]].deleted = TRUE], client),
                          !._clients[f] = id]
          ELSE [sh EXCEPT !.conns = Append(sh.conns, client),
                          !._clients = (f :> id) @@ sh._clients]
    /\ hist' = [op |-> "accept", addr |-> client.addr, rc |-> "0", to |-> {}]
    /\ UNCHANGED <<pc, loc>>

\* the connection i closes; TcpServer::_cb_state sets _cleanup_flag
CbState(i) ==
    /\ i \in Live(shared.conns)
    /\ shared.conns[i].state = "Active"
    /\ shared' = [shared EXCEPT !.conns[i].state = "Closed", !._cleanup_flag = TRUE]
    /\ hist' = [op |-> "close", addr |-> shared.conns[i].addr, rc |-> "0", to |-> {}]
    /\ UNCHANGED <<pc, loc>>

\* a post that does not compare the seq of the address
TcpPost_fd_only(addr) ==
    /\ hist' = IF addr.fd = NoFd
               THEN [op |-> "post", addr |-> addr, rc |-> "EINVAL", to |-> {}]
               ELSE IF addr.fd \notin DOMAIN shared._clients
               THEN [op |-> "post", addr |-> addr, rc |-> "ENOENT", to |-> {}]
               ELSE [op |-> "post", addr |-> addr, rc |-> "client",
                     to |-> {shared._clients[addr.fd]}]
    /\ UNCHANGED <<pc, loc, shared>>

\* TcpServer::_post(msg): rc "client" is what the post of the connection returns
TcpPost(addr) ==
    /\ hist' = IF addr.fd = NoFd
               THEN [op |-> "post", addr |-> addr, rc |-> "EINVAL", to |-> {}]
               ELSE IF addr.fd \notin DOMAIN shared._clients
               THEN [op |-> "post", addr |-> addr, rc |-> "ENOENT", to |-> {}]
               ELSE IF addr.seq # shared.conns[shared._clients[addr.fd]].addr.seq
               THEN [op |-> "post", addr |-> addr, rc |-> "ENOENT", to |-> {}]
               ELSE [op |-> "post", addr |-> addr, rc |-> "client",
                     to |-> {shared._clients[addr.fd]}]
    /\ UNCHANGED <<pc, loc, shared>>

InitTcp ==
    /\ IdleReg
    /\ IdleCtx
    /\ IdleCb
    /\ IdleLoop
    /\ IdleChan
    /\ pc = << >>
    /\ loc = << >>
    /\ shared = [_clients |-> << >>, _cleanup_flag |-> FALSE, conns |-> << >>]
    /\ hist = [op |-> "open", addr |-> [fd |-> NoFd, seq |-> 0], rc |-> "0", to |-> {}]

NextTcp ==
    \/ \E f \in TcpFds, q \in TcpSeqs :
          CbSocket(f, q) /\ UNCHANGED <<regVars, ctxVars, chanVars, cbVars, loopVars>>
    \/ \E i \in 1..MaxConns :
          CbState(i) /\ UNCHANGED <<regVars, ctxVars, chanVars, cbVars, loopVars>>
    \/ \E a \in PostAddrs :
          TcpPost(a) /\ UNCHANGED <<regVars, ctxVars, chanVars, cbVars, loopVars>>

SpecTcp == InitTcp /\ [][NextTcp]_vars

----------------------------------------------------------------------------
(* Claims about the callback tables, under SpecCb *)

\* no two slots of a table hold the same (cb, user) pair
NoDuplicate(tab) ==
    \A i, j \in DOMAIN tab :
        (tab[i].cb # NullCb /\ tab[i].cb = tab[j].cb /\ tab[i].user = tab[j].user) => i = j

\* a table that held the pair of q before an add differs afterwards only by
\* the bits added to the mask of that slot
Widened(before, after, q, bits) ==
    \A i \in DOMAIN before :
        (before[i].cb = q.cb /\ before[i].user = q.user)
            => after = [before EXCEPT ![i].mask = @ \cup bits]

\* C12: each callback table holds at most one slot per (cb, user) pair, and an
\* add of a pair that has a slot only ORs the new bits into the mask of that
\* slot, whatever empty slots come before it.
C12_AddWidensTheOneSlot ==
    /\ NoDuplicate(data_cb)
    /\ NoDuplicate(cb)
    /\ (last.op = "add" /\ last.rc = "0") =>
          /\ Widened(last.before.data, data_cb, last.arg, last.arg.mask \cap TLL_MESSAGE_MASK_DATA)
          /\ Widened(last.before.other, cb, last.arg, last.arg.mask \ TLL_MESSAGE_MASK_DATA)

\* C12 witness: an add found its pair behind an empty slot in both tables and
\* widened the mask of the slot in the other table
C12_Witness ==
    /\ last.op = "add"
    /\ last.rc = "0"
    /\ \E i, j \in DOMAIN last.before.other :
          /\ j < i
          /\ last.before.other[j].cb = NullCb
          /\ last.before.other[i].cb = last.arg.cb
          /\ last.before.other[i].user = last.arg.user
          /\ cb[i].mask # last.before.other[i].mask
    /\ \E i, j \in DOMAIN last.before.data :
          /\ j < i
          /\ last.before.data[j].cb = NullCb
          /\ last.before.data[i].cb = last.arg.cb
          /\ last.before.data[i].user = last.arg.user
          /\ TLL_MESSAGE_MASK_DATA \subseteq last.arg.mask

\* a table does not end with an empty slot
NoEmptyTail(tab) == Len(tab) = 0 \/ tab[Len(tab)].cb # NullCb

\* C13: tll_channel_callback_add(cb, user, M) on a channel that has no slot for
\* (cb, user), followed by tll_channel_callback_del(cb, user, M), leaves no slot
\* that holds the pair in either table, and neither table ends with an empty
\* slot.
C13_AddThenDelLeavesNoSlot ==
    (last.op = "del" /\ last.undo) =>
        /\ <<last.arg.cb, last.arg.user>> \notin LivePairs(data_cb) \cup LivePairs(cb)
        /\ NoEmptyTail(data_cb)
        /\ NoEmptyTail(cb)

\* C13 witness: the del undid an add that had put the pair in both tables, in
\* the only slot of the one and behind other slots in the other; the first
\* table is empty again and the second is shorter
C13_Witness ==
    /\ last.op = "del"
    /\ last.undo
    /\ last.c # NullChan
    /\ <<last.arg.cb, last.arg.user>> \in LivePairs(last.before.data) \cap LivePairs(last.before.other)
    /\ Len(last.before.data) = 1 /\ data_cb = << >>
    /\ Len(last.before.other) > 1 /\ Len(cb) < Len(last.before.other) /\ cb # << >>

\* the pair of a call selects a table and has a slot in it
FoundBy(call) ==
    LET q == <<call.arg.cb, call.arg.user>> IN
    \/ /\ TLL_MESSAGE_MASK_DATA \subseteq call.arg.mask
       /\ q \in LivePairs(call.before.data)
    \/ /\ call.arg.mask \ TLL_MESSAGE_MASK_DATA # {}
       /\ q \in LivePairs(call.before.other)

\* C14: tll_channel_callback_del(c, cb, user, mask) with a channel, a function
\* and a mask that is not 0 returns 0 if a slot that holds (cb, user) was found
\* in a table the mask selects, the DATA table for the DATA bit and the other
\* table for the other bits, and ENOENT if none was found in any of them.
C14_DelReportsWhatItFound ==
    (last.op = "del" /\ last.c # NullChan /\ last.arg.cb # NullCb /\ last.arg.mask # {}) =>
        last.rc = IF FoundBy(last) THEN "0" ELSE "ENOENT"

\* the pairs of the live slots of a table, in slot order: the order of the
\* calls made for one message
LiveSeq(tab) ==
    LET live == SelectSeq(tab, LAMBDA x : x.cb # NullCb)
    IN  [i \in 1..Len(live) |-> <<live[i].cb, live[i].user>>]

\* the slot of a table that holds a pair
Pos(tab, q) == CHOOSE i \in DOMAIN tab : <<tab[i].cb, tab[i].user>> = q

\* the slot a table gives to a new pair: its first empty slot, else a new one
\* at its end
NewPos(tab) ==
    LET e == {i \in DOMAIN tab : tab[i].cb = NullCb}
    IN  IF e = {} THEN Len(tab) + 1 ELSE CHOOSE i \in e : \A j \in e : i <= j

\* C15 as stated: the live slots of the DATA table, and so the calls made for
\* one DATA message, are in the order in which their pairs were added.
C15_DataSlotsInOrderOfAddition == LiveSeq(data_cb) = data_order

\* C15 as amended: no call moves a live slot of the DATA table, and a pair
\* that is added takes the first empty slot of the table, or a new slot at
\* its end when it has none.
C15_DataSlotsKeepTheirPlace ==
    (last.op \in {"add", "del"}) =>
        /\ \A q \in LivePairs(last.before.data) \cap LivePairs(data_cb) :
              Pos(data_cb, q) = Pos(last.before.data, q)
        /\ \A q \in LivePairs(data_cb) \ LivePairs(last.before.data) :
              /\ last.op = "add"
              /\ q = <<last.arg.cb, last.arg.user>>
              /\ Pos(data_cb, q) = NewPos(last.before.data)

\* C15 witness: an add put its pair in an empty slot ahead of a pair that had
\* been added before it
C15_Witness ==
    /\ last.op = "add"
    /\ last.rc = "0"
    /\ <<last.arg.cb, last.arg.user>> \in LivePairs(data_cb) \ LivePairs(last.before.data)
    /\ \E i \in DOMAIN data_cb :
          /\ Pos(data_cb, <<last.arg.cb, last.arg.user>>) < i
          /\ last.before.data[i].cb # NullCb
    /\ LiveSeq(data_cb) # data_order

----------------------------------------------------------------------------
(* Claims about the processor loop, under SpecLoop and SpecLoopSusp *)

\* C16: every change of the dcaps of a channel, those that tll_channel_suspend
\* and tll_channel_resume make on the channel and on its descendants included,
\* is announced by a CHANNEL UPDATE message of the channel that carries the
\* dcaps it had before.
C16_DcapsChangeIsAnnounced ==
    [][\A c \in DOMAIN dcaps :
          dcaps'[c] # dcaps[c] =>
              \E i \in DOMAIN sent' : sent'[i] = Msg(c, "CHANNEL", "UPDATE", dcaps[c])]_vars

\* C17: every channel of list is in list_p exactly when its dcaps have Process
\* and in list_pending exactly when they have Pending, with a fd or without.
C17_ListsFollowDcaps ==
    \A c \in Range(list) \cap Alive :
        /\ c \in Range(list_p) <=> TLL_DCAPS_PROCESS \subseteq dcaps[c]
        /\ c \in Range(list_pending) <=> TLL_DCAPS_PENDING \subseteq dcaps[c]

\* C18: efd is registered for EPOLLIN exactly when list_pending holds a
\* channel, after every add, update and del, the del of a channel that
\* list_pending does not hold included.
C18_EfdArmedIffPending ==
    "EPOLLIN" \in efd <=> \E i \in DOMAIN list_pending : list_pending[i] # NullPtr

\* C18 witness: the loop deleted a channel that list_pending did not hold
\* while it held another one, and efd is still registered for EPOLLIN
C18_Witness ==
    /\ last.op = "del"
    /\ last.rc = "0"
    /\ ~last.before
    /\ \E i \in DOMAIN list_pending : list_pending[i] \notin {NullPtr, last.c}
    /\ "EPOLLIN" \in efd

\* C19: when a channel of the loop has Pending, poll with a positive timeout
\* returns without waiting for the timeout, whether Pending was set when the
\* channel was added or later.
C19_PollDoesNotWaitWhenPending ==
    (/\ last.op = "poll"
     /\ \E c \in Range(list) \cap Alive :
           /\ TLL_DCAPS_PENDING \subseteq dcaps[c]
           /\ dcaps[c] \cap TLL_DCAPS_SUSPEND = {})
        => last.rc # "timeout"

\* C20: after del(c), called by the owner of the loop or by the callback of
\* the loop for STATE Destroy or CHANNEL DELETE, c is in none of list, list_p
\* and list_pending and the fd of c is not registered.
C20_DelRemovesEverywhere ==
    (last.op = "del" /\ last.rc = "0") =>
        /\ last.c \notin Range(list) \cup Range(list_p) \cup Range(list_pending)
        /\ fd[last.c] \notin DOMAIN epoll

\* C21: while a channel is in list, every channel of its child tree is in
\* list too, the children it had when it was added and those announced by
\* CHANNEL ADD since; a child announced by CHANNEL DELETE is not in list.
C21_ChildTreeIsInList ==
    /\ \A r \in Range(list) \cap Alive :
          \A k \in descendants(tree, r) \cap Alive : k \in Range(list)
    /\ (last.op = "del" /\ last.arg = "msg" /\ last.rc = "0") => last.c \notin Range(list)

\* the channels of the slots of a List that are not empty, in slot order
Slots(l) == SelectSeq(l, LAMBDA x : x # NullPtr)

\* C22: Loop::process calls process on the channel of every slot of list_p
\* that is not empty and then of list_pending, and returns EAGAIN exactly when
\* every call returned EAGAIN, as when both lists are empty; else it returns
\* 0, also when a call returned an error.
C22_ProcessAggregatesEagain ==
    (last.op = "process") =>
        /\ [i \in DOMAIN last.arg |-> last.arg[i][1]] = Slots(list_p) \o Slots(list_pending)
        /\ last.rc = IF \A i \in DOMAIN last.arg : last.arg[i][2] = "EAGAIN" THEN "EAGAIN" ELSE "0"

\* C22 witness: process skipped an empty slot, made a call that returned
\* EAGAIN and a call that returned an error, and returned 0
C22_Witness ==
    /\ last.op = "process"
    /\ last.rc = "0"
    /\ \E i \in DOMAIN list_p \cup DOMAIN list_pending :
          (i \in DOMAIN list_p /\ list_p[i] = NullPtr)
          \/ (i \in DOMAIN list_pending /\ list_pending[i] = NullPtr)
    /\ \E i, j \in DOMAIN last.arg : last.arg[i][2] = "EAGAIN" /\ last.arg[j][2] = "EINVAL"

----------------------------------------------------------------------------
(* Claims about the registry calls *)

\* C23: reg(impl, name) stores impl under name (under impl.name when name is
\* empty) and returns 0 when the key is absent; when the key is present, as an
\* impl or as an alias, it returns EEXIST and the registry is unchanged.
C23_RegStoresOrRejects ==
    [][\A i \in RegInputs :
         Reg(i[1], i[2]) =>
            LET key == KeyOf(i[1], i[2]) IN
            IF key \in DOMAIN registry
            THEN res'.rc = "EEXIST" /\ registry' = registry
            ELSE /\ res'.rc = "0"
                 /\ DOMAIN registry' = DOMAIN registry \cup {key}
                 /\ registry'[key] = Impl(i[1])
                 /\ \A k \in DOMAIN registry : registry'[k] = registry[k]]_vars

C23_Witness ==
    /\ res.op = "reg"
    /\ res.rc = "EEXIST"
    /\ res.name = S_alias
    /\ S_alias \in DOMAIN registry
    /\ registry[S_alias].kind = "alias"

\* C24: unreg(impl, name) removes the entry and returns 0 only when the key
\* holds that very impl; it returns ENOENT when the key is absent and EINVAL
\* when the key holds an alias or another impl, the registry unchanged in both;
\* after a successful unreg the key is absent, so the same call returns ENOENT.
C24_UnregExactImplOnly ==
    [][\A i \in UnregInputs :
         Unreg(i[1], i[2]) =>
            LET key == KeyOf(i[1], i[2]) IN
            IF key \notin DOMAIN registry
            THEN res'.rc = "ENOENT" /\ registry' = registry
            ELSE IF registry[key] # Impl(i[1])
            THEN res'.rc = "EINVAL" /\ registry' = registry
            ELSE /\ res'.rc = "0"
                 /\ DOMAIN registry' = DOMAIN registry \ {key}
                 /\ \A k \in DOMAIN registry' : registry'[k] = registry[k]]_vars

C24_Witness ==
    /\ res.op = "unreg"
    /\ res.rc = "EINVAL"
    /\ res.impl = "Prefix"
    /\ res.name = S_echo
    /\ S_echo \in DOMAIN registry
    /\ registry[S_echo] = Impl("Echo")

\* the call before this one was op(impl, name) and returned 0
JustDid(op, impl, name) ==
    res.op = op /\ res.rc = "0" /\ res.impl = impl /\ res.name = KeyOf(impl, name)

\* this step is new_channel with protocol n and no other url parameter
NewOf(n) == \E b \in NameBehs : NewChannel(Url(n, "", NoKeys), NoImpl, b, TLL_CAPS_INOUT)

\* C25 (as stated): for every name n, names with '+' included: after
\* reg(impl, n) returns 0, resolving n yields impl and new_channel with
\* protocol n creates a channel whose impl is impl; after the matching unreg
\* returns 0, resolving n reports not found and new_channel returns null.
C25_NameResolvesWhileRegistered ==
    [][\A i \in NameInputs :
         LET n == KeyOf(i[1], i[2]) IN
         /\ JustDid("reg", i[1], i[2]) =>
               /\ ImplGet(n) => (res'.rc = "impl" /\ res'.impl = i[1])
               /\ NewOf(n) => (res'.rc = "0" /\ chans'[res'.id].impl = i[1])
         /\ JustDid("unreg", i[1], i[2]) =>
               /\ ImplGet(n) => res'.rc = "null"
               /\ NewOf(n) => res'.rc # "0"]_vars

\* n has a '+' and the registry holds its part up to that '+'
PrefixHeld(n) == Pluses(n) # {} /\ UpToFirstPlus(n) \in DOMAIN registry

\* C25 (amended): after reg(impl, n) returns 0, resolving n yields impl and
\* new_channel with protocol n runs the init of impl and, when that init
\* succeeds, creates a channel whose impl is impl; after the matching unreg
\* returns 0, resolving n reports not found and new_channel returns null
\* unless n has a '+' and the part of n up to its first '+' is a key: then n
\* resolves to what that key holds.
C25_NameResolvesUnlessPrefixHeld ==
    [][\A i \in NameInputs :
         LET n == KeyOf(i[1], i[2]) IN
         /\ JustDid("reg", i[1], i[2]) =>
               /\ ImplGet(n) => (res'.rc = "impl" /\ res'.impl = i[1])
               /\ NewOf(n) =>
                     /\ res'.tried = <<i[1]>>
                     /\ res'.rc \in {"0", "null:fail"}
                     /\ res'.rc = "0" => chans'[res'.id].impl = i[1]
         /\ JustDid("unreg", i[1], i[2]) =>
               IF PrefixHeld(n)
               THEN /\ ImplGet(n) =>
                          (res'.rc = "impl" /\ Impl(res'.impl) = registry[UpToFirstPlus(n)])
                    /\ NewOf(n) => Impl(res'.tried[1]) = registry[UpToFirstPlus(n)]
               ELSE /\ ImplGet(n) => res'.rc = "null"
                    /\ NewOf(n) => res'.rc = "null:notfound"]_vars

\* a channel was created for a name that has just been unregistered
C25_Witness ==
    /\ res.op = "new"
    /\ res.rc = "0"
    /\ res.in.proto = S_prefixEcho
    /\ S_prefixEcho \notin DOMAIN registry
    /\ res.impl = "Prefix"

\* what alias_reg returns by the order of its checks when lookup returns
alias_reg_rc(reg, name, cfg) ==
    IF name = Empty \/ Get(cfg, "tll.host") # "" \/ Get(cfg, "name") # "" THEN "EINVAL"
    ELSE IF Resolve(reg, cfg).st # "impl" THEN "ENOENT"
    ELSE IF name \in DOMAIN reg THEN "EEXIST"
    ELSE "0"

\* C26: alias_reg(name, url) returns EINVAL when name is empty or url carries
\* a non-empty name or host; otherwise ENOENT when the protocol of url does not
\* resolve to an impl; otherwise EEXIST when name is a registry key already;
\* otherwise 0 and the alias is stored. The registry is unchanged on every
\* non-zero return.
C26_AliasRegCodes ==
    [][\A i \in AliasInputs :
         AliasReg(i[1], i[2]) =>
            LET rc == alias_reg_rc(registry, i[1], i[2]) IN
            /\ res'.rc = rc
            /\ IF rc = "0"
               THEN /\ DOMAIN registry' = DOMAIN registry \cup {i[1]}
                    /\ registry'[i[1]].kind = "alias"
                    /\ \A k \in DOMAIN registry : registry'[k] = registry[k]
               ELSE registry' = registry]_vars

\* C27: alias_reg(name, url) that returned 0, followed by alias_unreg(name, url)
\* with the same url, returns 0 and leaves the registry as it was before the
\* alias_reg, for every url that alias_reg accepts, a url whose protocol is
\* itself an alias included.
C27_AliasUnregUndoesAliasReg ==
    [][\A i \in AliasInputs :
         (/\ res.op = "alias_reg" /\ res.rc = "0" /\ res.name = i[1] /\ res.in = i[2]
          /\ AliasUnreg(i[1], i[2]))
         => (res'.rc = "0" /\ registry' = Without(registry, i[1]))]_vars

----------------------------------------------------------------------------
(* Claims about the name index *)

\* C28: new_channel for a url that is not internal and whose name is bound in
\* the name index already fails: it returns null and creates no channel, and
\* the index entry still points at the channel it pointed at.
C28_BoundNameIsRefused ==
    [][(/\ res'.op = "new"
        /\ chans' # chans \/ res' # res
        /\ getT_internal(res'.url) = "no"
        /\ "name" \in DOMAIN res'.url.keys
        /\ res'.url.keys["name"] \in DOMAIN channels)
       => (/\ res'.rc # "0"
           /\ chans' = chans
           /\ channels' = channels)]_vars

\* C29: after tll_channel_free(c) of a channel that the name index holds under
\* its name, whatever its static caps, context.get(c.name) is no longer c.
C29_FreeUnbindsName ==
    [][\A id \in DOMAIN chans :
         (/\ chans[id].alive
          /\ get(chans[id].name) = id
          /\ \E e \in BOOLEAN : ChannelFree(id, e)
          /\ res'.rc = "0")
         => (chans[id].name \notin DOMAIN channels' \/ channels'[chans[id].name] # id)]_vars

----------------------------------------------------------------------------
(* Claims about a prefix channel over echo *)

\* every channel of the stack is in state s
AllIn(st, s) == \A c \in DOMAIN st : st[c] = s

\* C30: a prefix channel over echo (manual open, long close), hooks the
\* default: open on the closed parent leaves the parent Opening; the child's
\* process that makes the child Active makes the parent Active; close leaves
\* the parent Closing; the child's process that ends the child's close makes
\* the parent Closed; after each step parent and child are in the same state.
C30_PrefixFollowsEcho ==
    [][/\ (AllIn(state, "Closed") /\ PrefixOpen(1, {})) => AllIn(state', "Opening")
       /\ (AllIn(state, "Opening") /\ ChildState("Active", {})) => AllIn(state', "Active")
       /\ (AllIn(state, "Active") /\ PrefixClose(1, {})) => AllIn(state', "Closing")
       /\ (AllIn(state, "Closing") /\ ChildState("Closed", {})) => AllIn(state', "Closed")]_vars

\* the end of the scenario: the child's Closed has closed the closing parent
C30_Witness ==
    /\ tree = Chain(2)
    /\ last.op = "child"
    /\ last.called
    /\ last.edges = << <<2, "Closing", "Closed">>, <<1, "Closing", "Closed">> >>
    /\ AllIn(state, "Closed")


----------------------------------------------------------------------------
(* Claims about the default context *)

\* C31: every call of tll_channel_context_default returns the same context,
\* the context is created once whatever the interleaving of the first calls,
\* and no sequence of tll_channel_context_ref and tll_channel_context_free
\* calls, calls with NULL included, destroys it.
C31_DefaultContextLivesForever ==
    /\ shared.created <= 1
    /\ hist.returned \subseteq {1}
    /\ hist.destroyed = {}

----------------------------------------------------------------------------
(* Claims about the scheme cache *)

\* C32: when two threads call scheme_load with the cache for the same url,
\* whatever the interleaving every call that returns a scheme returns the one
\* scheme the cache holds for the url, the call that lost the insertion
\* included, and the cache has one entry for the url.
C32_CachedLoadsReturnTheEntry ==
    \A t \in Threads :
        (hist.ret[t].cache /\ hist.ret[t].s # NullScheme) =>
            /\ hist.ret[t].url \in DOMAIN shared.scheme_cache
            /\ hist.ret[t].s = shared.scheme_cache[hist.ret[t].url]

----------------------------------------------------------------------------
(* Claims about the ipc channels *)

\* C33: the post of a client puts its message into the outgoing queue before
\* the marker of that queue is visible in the marker queue of the server, so
\* the queue of a marker the server has just popped holds a message.
C33_MarkerFollowsMessage ==
    /\ \A c \in Clients :
          Cardinality({i \in DOMAIN shared._markers : shared._markers[i] = c})
              <= Len(shared._qout[c])
    /\ pc[Server] = "pop" => shared._qout[loc[Server]] # << >>

IsPrefix(a, b) == Len(a) <= Len(b) /\ \A i \in DOMAIN a : a[i] = b[i]

RECURSIVE SumLen(_, _)
SumLen(f, S) ==
    IF S = {} THEN 0
    ELSE LET c == CHOOSE x \in S : TRUE IN Len(f[c]) + SumLen(f, S \ {c})

\* what the server has delivered of each client is the beginning of what the
\* posts of that client have had accepted, and a popped marker is one message
Ipc_NoLossNoDup ==
    /\ \A c \in Clients : IsPrefix(hist.delivered[c], hist.accepted[c])
    /\ hist.popped = SumLen(hist.delivered, Clients) + (IF pc[Server] = "pop" THEN 1 ELSE 0)

\* the posts of a client that have not returned an error, in their order
Posts0(c) == SelectSeq(hist.accepted[c], LAMBDA m : m \notin hist.failed[c])

C38_ServerPopEnds == (pc[Server] = "pop") ~> (pc[Server] = "idle")

----------------------------------------------------------------------------
(* Claims about the tcp server, under SpecTcp *)

\* the connections the server holds whose address is a
Addressed(a) ==
    {i \in Live(shared.conns) :
        /\ \E f \in DOMAIN shared._clients : shared._clients[f] = i
        /\ shared.conns[i].addr = a}

\* C35: a post of the tcp server goes to the accepted connection whose
\* address, fd and seq, is that of the message and to no other; it returns
\* EINVAL for the fd -1, and ENOENT without a delivery when no client has the
\* fd or the client with the fd has another seq.
C35_PostGoesToTheAddressedClient ==
    hist.op = "post" =>
        /\ hist.to = Addressed(hist.addr)
        /\ Cardinality(hist.to) <= 1
        /\ hist.addr.fd = NoFd => hist.rc = "EINVAL"
        /\ (hist.addr.fd # NoFd /\ Addressed(hist.addr) = {}) => hist.rc = "ENOENT"
        /\ Addressed(hist.addr) # {} => hist.rc = "client"

\* two connections c0 and c1 are accepted and a reply with the address of c0
\* has gone to c0 alone
C35_Witness ==
    /\ hist.op = "post"
    /\ Len(shared.conns) >= 2
    /\ shared.conns[1].state = "Active"
    /\ shared.conns[2].state = "Active"
    /\ hist.addr = shared.conns[1].addr
    /\ hist.to = {1}

----------------------------------------------------------------------------
(* Claims about the readiness registrations of the loop, under SpecLoop *)

\* the events the dcaps of c ask for
WantedEvents(c) ==
    IF dcaps[c] \cap TLL_DCAPS_SUSPEND # {} THEN {}
    ELSE (IF TLL_DCAPS_POLLIN \subseteq dcaps[c] THEN {"EPOLLIN"} ELSE {})
         \cup (IF TLL_DCAPS_POLLOUT \subseteq dcaps[c] THEN {"EPOLLOUT"} ELSE {})

\* C36: in every state of the loop, every channel of list that has a fd and
\* is Opening or Active has that fd registered with the readiness object for
\* the events of PollIn and PollOut of its dcaps, and for none when Suspend
\* is set.
C36_RegistrationFollowsDcaps ==
    \A c \in Range(list) :
        (fd[c] # NoFd /\ state[c] \in {"Opening", "Active"}) =>
            /\ fd[c] \in DOMAIN epoll
            /\ epoll[fd[c]] = Event(WantedEvents(c), c)

\* C37: neither Loop::process nor Loop::poll calls process on an empty slot
\* of list_p or list_pending, also when list_pending has empty slots between
\* live ones.
C37_NoProcessOnEmptySlot ==
    last.op \in {"process", "poll"} =>
        \A i \in DOMAIN last.arg : last.arg[i][1] # NullPtr

\* the channels the loop has added and deleted: they are not in list any
\* more and their callback table has a slot of the loop
Deleted == {c \in LoopChans : c \notin Range(list) /\ subs[c] # << >>}

\* C39: after del(c) the loop does not react to c: no STATE or CHANNEL
\* message c sends later (a state change, a dcaps UPDATE, a child ADD)
\* changes list, list_p, list_pending or the registrations of the readiness
\* object.
C39_DeletedChannelIsIgnored ==
    [][\A c \in Deleted :
          (\/ \E u \in LoopUpdates : u[1] = c /\ DcapsUpdate(c, u[2])
           \/ \E i \in LoopStates : i[1] = c /\ StateUpdate(c, i[2])
           \/ \E k \in LoopChans : ChildAdd(c, k))
          => UNCHANGED <<list, list_p, list_pending, epoll, efd>>]_vars

----------------------------------------------------------------------------
(* Claims about the dcaps bits over suspend and resume, under SpecSusp *)

\* the bits of dcaps that are not suspension flags
WorkBits == TLL_DCAPS_POLLIN \cup TLL_DCAPS_POLLOUT \cup TLL_DCAPS_PROCESS \cup TLL_DCAPS_PENDING

\* C40: tll_channel_suspend(c) followed by tll_channel_resume(c) leaves the
\* PollIn, PollOut, Process and Pending bits of the dcaps of c as they were
\* before the suspend, whatever the dcaps were.
C40_SuspendResumeKeepsWorkBits ==
    [][(/\ last.op = "suspend" /\ last.rc = "0"
        /\ last'.op = "resume" /\ last'.rc = "0" /\ last'.c = last.c)
       => dcaps'[last.c] \cap WorkBits = last.before[last.c] \cap WorkBits]_vars

============================================================================
